---- MODULE Spec2Model ----
(***************************************************************************)
(* State-machine model of the SaviourAI pipeline core:                     *)
(*   - AIResponseHandler (src/ai_handler.py): response cache, primary /    *)
(*     fallback model calls, apology fallback, lifetime counters, run by   *)
(*     several AI threads at once (src/main.py:271-274 starts one thread   *)
(*     per transcription);                                                 *)
(*   - AudioManager (src/audio_manager.py): ring buffer, capture callback  *)
(*     and chunk extraction, device selection, start and stop of the       *)
(*     capture stream;                                                     *)
(*   - WhisperTranscriber (src/transcriber.py): engine initialisation, the *)
(*     transcription lock, the local model and the whisper.cpp subprocess. *)
(* Python strings are sequences of one-character strings, so that strip,   *)
(* lower, split and join are computed and not assumed.                     *)
(***************************************************************************)
EXTENDS Integers, Sequences, FiniteSets, TLC

VARIABLES
    response_cache,       \* AIResponseHandler.response_cache: insertion-ordered dict
    request_count,        \* AIResponseHandler.request_count
    total_response_time,  \* AIResponseHandler.total_response_time (clock ticks)
    th,                   \* per AI thread: position in get_response and its locals
    started,              \* history: number of get_response calls started
    answered,             \* history: the answers of real models that calls stored and
                          \*   returned, per key, not cleared or evicted since stored
    standing,             \* history: keys whose stored entry was returned by a completed
                          \*   call and has not been stored to, cleared or evicted since
    inserted,             \* history: number of _cache_response calls since the cache was
                          \*   last empty (construction or clear_cache)
    audio_buffer,         \* AudioManager.audio_buffer: deque(maxlen) of int16 samples
    chunk_call,           \* the last get_audio_chunk call: its argument and its result
    delivered,            \* history: every sample the capture callbacks delivered, in order
    is_recording,         \* AudioManager.is_recording
    stream,               \* AudioManager.stream: absent, or the state of the PyAudio stream
    device_index,         \* AudioManager.device_index
    callbacks,            \* AudioManager.callbacks: how many callbacks are registered
    rec_call,             \* the last start_recording / stop_recording call and its result
    engine,               \* WhisperTranscriber: model, model_loaded, whisper_cpp_path
    lock,                 \* WhisperTranscriber.lock: its holder
    tt,                   \* per transcribing thread: position in transcribe_audio, locals
    tcalls,               \* history: number of transcribe_audio calls started
    kq,                   \* a question put together word by word, its context and its cache key
    cleared,              \* history: the keys the last clear_cache removed, and what became of them
    cache_lock,           \* AIResponseHandler.cache_lock: its holder, and the locals of a
                          \*   _cache_response call taken statement by statement
    stats,                \* the last get_stats call: what it read and when
    stoppers,             \* the callers of stop_recording taken statement by statement:
                          \*   their positions, and history: the calls made on the stream
    audio_thread,         \* AudioProcessingThread: its life, position in run(), running, processing
    is_listening,         \* StealthAIApplication.is_listening
    ui,                   \* the UI thread: idle, or inside start_listening / stop_listening
    status,               \* the status the overlay displays (OverlayWindow.set_status)
    signals,              \* the signals emitted by the audio thread and not yet handled
    sink                  \* history: events emitted, answers delivered, callers of the overlay

aiVars == <<response_cache, request_count, total_response_time, th, started,
            answered, standing, inserted>>
audioVars == <<audio_buffer, chunk_call, delivered>>
recVars == <<is_recording, stream, device_index, callbacks, rec_call>>
trVars == <<engine, lock, tt, tcalls>>
orchVars == <<stoppers, status, audio_thread, is_listening, ui, signals, sink>>
appVars == <<kq, cleared, cache_lock, stats, stoppers, status, audio_thread, is_listening, ui, signals, sink>>
vars == <<response_cache, request_count, total_response_time, th, started,
          answered, standing, inserted, audio_buffer, chunk_call, delivered,
          is_recording, stream, device_index, callbacks, rec_call,
          engine, lock, tt, tcalls, kq, cleared, cache_lock,
          stats, stoppers, status, audio_thread, is_listening, ui, signals, sink>>

(***************************************************************************)
(* Bounds of the model.                                                    *)
(***************************************************************************)
MaxRequests == 3        \* get_response calls started in one behaviour of Spec
MaxElapsed == 2         \* longest response_time of a network round trip, in ticks
MaxFill == 52           \* get_response calls started in one behaviour of SpecCache
MaxAsked == 55          \* get_response calls started in one behaviour of SpecEvict
SAMPLE_RATE == 2        \* CONFIG.audio.SAMPLE_RATE (16000), scaled down
BUFFER_SECONDS == 2     \* the seconds of audio the ring buffer keeps (30), scaled down
DurationUnits == 4      \* a duration d stands for d / DurationUnits seconds
MaxDuration == 10       \* longest duration asked of get_audio_chunk, in those units
MaxBlock == 2           \* most samples one capture callback delivers
MaxDelivered == 6       \* samples delivered in one behaviour
MaxDevices == 3         \* most devices PyAudio enumerates
MaxTranscriptions == 3  \* transcribe_audio calls started in one behaviour
MaxQuestionWords == 6   \* most words of a question whose cache key is computed
MaxStarts == 1          \* start requests that construct an audio thread
MaxChunks == 2          \* chunks the poll loop hands to the transcriber in one behaviour
CHUNK_DURATION == 4     \* CONFIG.audio.CHUNK_DURATION in DurationUnits-ths of a second
MaxSegments == 2        \* most segments in a result of the local model

Threads == {"t1", "t2"}

(***************************************************************************)
(* Python strings.                                                         *)
(***************************************************************************)
UPPER == <<"A", "B", "C", "D", "E", "F", "G", "H", "I", "J", "K", "L", "M",
           "N", "O", "P", "Q", "R", "S", "T", "U", "V", "W", "X", "Y", "Z">>
LOWER == <<"a", "b", "c", "d", "e", "f", "g", "h", "i", "j", "k", "l", "m",
           "n", "o", "p", "q", "r", "s", "t", "u", "v", "w", "x", "y", "z">>

IsSpace(c) == c \in {" ", "\n", "\t"}

\* str.lower(), one character
LowerChar(c) ==
    IF \E i \in 1..26 : UPPER[i] = c
    THEN LOWER[CHOOSE i \in 1..26 : UPPER[i] = c]
    ELSE c

\* str.lower()
Lower(s) == [i \in 1..Len(s) |-> LowerChar(s[i])]

RECURSIVE LStrip(_)
LStrip(s) == IF s # <<>> /\ IsSpace(Head(s)) THEN LStrip(Tail(s)) ELSE s

RECURSIVE RStrip(_)
RStrip(s) ==
    IF s # <<>> /\ IsSpace(s[Len(s)]) THEN RStrip(SubSeq(s, 1, Len(s) - 1)) ELSE s

\* str.strip()
Strip(s) == RStrip(LStrip(s))

\* the first word of a string that starts with a non-space character
RECURSIVE FirstWord(_)
FirstWord(s) ==
    IF s = <<>> \/ IsSpace(Head(s)) THEN <<>> ELSE <<Head(s)>> \o FirstWord(Tail(s))

\* str.split(): the maximal runs of non-space characters, in order
RECURSIVE Split(_)
Split(s) ==
    LET t == LStrip(s) IN
    IF t = <<>> THEN <<>>
    ELSE LET w == FirstWord(t) IN <<w>> \o Split(SubSeq(t, Len(w) + 1, Len(t)))

\* sep.join(words)
RECURSIVE Join(_, _)
Join(sep, words) ==
    IF words = <<>> THEN <<>>
    ELSE IF Len(words) = 1 THEN words[1]
    ELSE words[1] \o sep \o Join(sep, Tail(words))

\* seq[:n] for n >= 0
Take(seq, n) == SubSeq(seq, 1, IF n < Len(seq) THEN n ELSE Len(seq))

\* seq[n:] for n >= 0
Drop(seq, n) == SubSeq(seq, n + 1, Len(seq))

(***************************************************************************)
(* Optional[str]: Python's None and a string.                              *)
(***************************************************************************)
None == [some |-> FALSE, val |-> <<>>]
Some(s) == [some |-> TRUE, val |-> s]

\* mutant of Falsy: `response is None` in place of `not response`
IsNone(r) == ~r.some

\* Python's `not response` for an Optional[str]: None and "" are falsy
Falsy(r) == ~r.some \/ r.val = <<>>

(***************************************************************************)
(* Configuration (src/config.py) and the texts of get_response.            *)
(***************************************************************************)
PRIMARY_MODEL == "openai/gpt-4-turbo"
FALLBACK_MODEL == "openai/gpt-3.5-turbo"
FALLBACK_ID == "fallback"
NO_MODEL == ""

APOLOGY ==
    <<"I", "'", "m", " ", "h", "a", "v", "i", "n", "g", " ", "t", "r", "o", "u", "b",
      "l", "e", " ", "p", "r", "o", "c", "e", "s", "s", "i", "n", "g", " ", "t", "h",
      "a", "t", " ", "q", "u", "e", "s", "t", "i", "o", "n", " ", "r", "i", "g", "h",
      "t", " ", "n", "o", "w", ".", " ", "C", "o", "u", "l", "d", " ", "y", "o", "u",
      " ", "p", "l", "e", "a", "s", "e", " ", "r", "e", "p", "h", "r", "a", "s", "e",
      " ", "i", "t", "?">>

CACHE_LIMIT == 50       \* `len(self.response_cache) > 50`
EVICT_BATCH == 10       \* `list(self.response_cache.keys())[:10]`
KEY_WORDS == 5          \* `key_words[:5]`
MIN_WORD_LEN == 2       \* `len(w) > 2`

words_to_remove ==
    { <<"c", "a", "n">>, <<"y", "o", "u">>, <<"p", "l", "e", "a", "s", "e">>,
      <<"w", "h", "a", "t">>, <<"i", "s">>, <<"t", "h", "e">>, <<"h", "o", "w">>,
      <<"d", "o">>, <<"d", "o", "e", "s">> }

(***************************************************************************)
(* AIResponseHandler: cache key and the cache, an insertion-ordered dict   *)
(* kept as a sequence of [key, response, model] without repeated keys.     *)
(***************************************************************************)
\* mutant of GetCacheKey: the question not lower-cased
GetCacheKeyCaseSensitive(question, context) ==
    LET normalized == Strip(question)
        words == Split(normalized)
        key_words == SelectSeq(words,
                         LAMBDA w : w \notin words_to_remove /\ Len(w) > MIN_WORD_LEN)
    IN context \o <<":">> \o Join(<<"_">>, Take(key_words, KEY_WORDS))

\* _get_cache_key
GetCacheKey(question, context) ==
    LET normalized == Strip(Lower(question))
        words == Split(normalized)
        key_words == SelectSeq(words,
                         LAMBDA w : w \notin words_to_remove /\ Len(w) > MIN_WORD_LEN)
    IN context \o <<":">> \o Join(<<"_">>, Take(key_words, KEY_WORDS))

CacheKeys(cache) == {cache[i].key : i \in 1..Len(cache)}

\* dict.get(key): [found, response, model]
DictGet(cache, key) ==
    IF key \in CacheKeys(cache)
    THEN LET i == CHOOSE j \in 1..Len(cache) : cache[j].key = key
         IN [found |-> TRUE, response |-> cache[i].response, model |-> cache[i].model]
    ELSE [found |-> FALSE, response |-> <<>>, model |-> NO_MODEL]

\* dict[key] = data: an existing key keeps its position, a new key goes last
DictSet(cache, key, response, model) ==
    LET e == [key |-> key, response |-> response, model |-> model] IN
    IF key \in CacheKeys(cache)
    THEN [i \in 1..Len(cache) |-> IF cache[i].key = key THEN e ELSE cache[i]]
    ELSE Append(cache, e)

\* _get_cached_response (under cache_lock)
GetCachedResponse(cache, key) == DictGet(cache, key)

\* mutant of CachedTruthy: the early return of line 62 never taken
CachedNever(cached) == cached.found /\ ~cached.found

\* `if cached_response:` a found entry is a 2-tuple, which is truthy
CachedTruthy(cached) == cached.found

\* the size test of _cache_response
OverLimit(cache) == Len(cache) > CACHE_LIMIT

\* mutant of CacheResponse: the newest batch evicted
CacheResponseEvictNewest(cache, key, response, model) ==
    LET kept == IF OverLimit(cache) THEN Take(cache, Len(cache) - EVICT_BATCH) ELSE cache
    IN DictSet(kept, key, response, model)

\* _cache_response (under cache_lock): evict the oldest batch, then store
CacheResponse(cache, key, response, model) ==
    LET kept == IF OverLimit(cache) THEN Drop(cache, EVICT_BATCH) ELSE cache
    IN DictSet(kept, key, response, model)

\* mutant of ShouldCache: `if response:` without the test of model_used
ShouldCacheAnyAnswer(response, model_used) == ~Falsy(response)

\* `if response and model_used != "fallback":`
ShouldCache(response, model_used) == ~Falsy(response) /\ model_used # FALLBACK_ID

(***************************************************************************)
(* The remote model transport, as _try_model sees it.                      *)
(***************************************************************************)
Contents == { <<"X">>, <<" ", "Y", " ">>, <<" ">>, <<>> }

\* HTTP 200 whose first choice carries the message content `content`
Ok(content) == [kind |-> "ok", content |-> content]
\* "no_choices": HTTP 200 without "choices" or with an empty list;
\* "http_error": a status other than 200; "timeout": requests.exceptions.Timeout;
\* "request_exception": another RequestException; "malformed": a body json()
\* cannot decode or a first choice without message content (any other exception)
Failure(kind) == [kind |-> kind, content |-> <<>>]

FailureKinds == {"no_choices", "http_error", "timeout", "request_exception", "malformed"}

\* every outcome of one session.post and of reading its response
Outcomes == {Ok(c) : c \in Contents} \cup {Failure(k) : k \in FailureKinds}

\* a transport that answers 200 with the content "X"
GoodOutcomes == {Ok(<<"X">>)}

\* a transport that answers 200 with the content "X" or times out
SomeOutcomes == {Ok(<<"X">>), Failure("timeout")}

NoOutcome == Failure("none")

\* the outcome carries no usable content
Unusable(outcome) == outcome.kind # "ok" \/ Strip(outcome.content) = <<>>

\* mutant of TryModel: the primary model's id returned whichever model answered
TryModelPrimaryId(outcome, model) ==
    IF outcome.kind = "ok"
    THEN [raised |-> FALSE, response |-> Some(Strip(outcome.content)),
          model |-> PRIMARY_MODEL]
    ELSE [raised |-> FALSE, response |-> None, model |-> PRIMARY_MODEL]

\* _try_model: what it returns for a transport outcome, or that it raises
TryModel(outcome, model) ==
    CASE outcome.kind = "ok" ->                 \* lines 119-124
           [raised |-> FALSE, response |-> Some(Strip(outcome.content)), model |-> model]
      [] outcome.kind = "no_choices" ->         \* lines 125-127
           [raised |-> FALSE, response |-> None, model |-> model]
      [] outcome.kind = "http_error" ->         \* lines 128-131
           [raised |-> FALSE, response |-> None, model |-> model]
      [] outcome.kind = "timeout" ->            \* lines 133-135
           [raised |-> FALSE, response |-> None, model |-> model]
      [] outcome.kind = "request_exception" ->  \* lines 136-138
           [raised |-> FALSE, response |-> None, model |-> model]
      [] OTHER ->                               \* lines 139-141
           [raised |-> FALSE, response |-> None, model |-> model]

(***************************************************************************)
(* get_response, one thread's steps.  A thread holds the locals of the     *)
(* call and, as history, the models it tried, the last transport outcome   *)
(* it saw, and whether the entry it stored was cleared or evicted since.   *)
(***************************************************************************)
Idle == [pc |-> "idle", cache_key |-> <<>>, response |-> None, model_used |-> NO_MODEL,
         response_time |-> 0, reg |-> 0, tried |-> <<>>, last_out |-> NoOutcome,
         wiped |-> FALSE]

\* thread t has stored a real model's answer and not yet returned
HasStored(t) ==
    /\ th[t].pc \in {"count_load", "count_store", "time_load", "time_store", "return"}
    /\ th[t].tried # <<>>
    /\ th[t].model_used # FALLBACK_ID

\* history: the threads whose stored entry is among the removed keys lose it
Wipe(threads, gone) ==
    [t \in Threads |-> IF HasStored(t) /\ threads[t].cache_key \in gone
                       THEN [threads[t] EXCEPT !.wiped = TRUE]
                       ELSE threads[t]]

\* lines 55-62: compute the key, look it up, return on a hit
Begin(t, question, context, cap) ==
    /\ th[t].pc = "idle"
    /\ started < cap
    /\ started' = started + 1
    /\ LET cache_key == GetCacheKey(question, context)
           cached_response == GetCachedResponse(response_cache, cache_key)
       IN IF CachedTruthy(cached_response)
          THEN th' = [th EXCEPT ![t] = [Idle EXCEPT
                             !.pc = "return",
                             !.cache_key = cache_key,
                             !.response = Some(cached_response.response),
                             !.model_used = cached_response.model]]
          ELSE th' = [th EXCEPT ![t] = [Idle EXCEPT
                             !.pc = "try_primary", !.cache_key = cache_key]]
    /\ UNCHANGED <<response_cache, request_count, total_response_time, answered,
                   standing, inserted, audioVars, recVars, trVars>>

\* an exception of _try_model leaves get_response
Raise(t, outcome) ==
    th' = [th EXCEPT ![t].pc = "raised", ![t].last_out = outcome]

\* lines 72-77: the apology when no model answered, and the elapsed time
Finish(t, r, outcome, elapsed) ==
    LET final == IF Falsy(r.response)
                 THEN [response |-> Some(APOLOGY), model |-> FALLBACK_ID]
                 ELSE [response |-> r.response, model |-> r.model]
    IN th' = [th EXCEPT ![t].pc = "cache",
                        ![t].response = final.response,
                        ![t].model_used = final.model,
                        ![t].response_time = elapsed,
                        ![t].tried = Append(th[t].tried, r.model),
                        ![t].last_out = outcome]

\* line 65: the primary model; when it answers, lines 72-77 follow at once
TryPrimary(t, outcome, elapsed) ==
    /\ th[t].pc = "try_primary"
    /\ LET r == TryModel(outcome, PRIMARY_MODEL) IN
       IF r.raised THEN Raise(t, outcome)
       ELSE IF Falsy(r.response)
       THEN th' = [th EXCEPT ![t].pc = "try_fallback",
                             ![t].response = r.response,
                             ![t].model_used = r.model,
                             ![t].tried = Append(th[t].tried, r.model),
                             ![t].last_out = outcome]
       ELSE Finish(t, r, outcome, elapsed)
    /\ UNCHANGED <<response_cache, request_count, total_response_time, started,
                   answered, standing, inserted, audioVars, recVars, trVars>>

\* lines 68-77: the fallback model, then the apology
TryFallback(t, outcome, elapsed) ==
    /\ th[t].pc = "try_fallback"
    /\ LET r == TryModel(outcome, FALLBACK_MODEL) IN
       IF r.raised THEN Raise(t, outcome) ELSE Finish(t, r, outcome, elapsed)
    /\ UNCHANGED <<response_cache, request_count, total_response_time, started,
                   answered, standing, inserted, audioVars, recVars, trVars>>

\* lines 79-81: cache a real model's answer
CacheStep(t) ==
    /\ th[t].pc = "cache"
    /\ IF ShouldCache(th[t].response, th[t].model_used)
       THEN LET new == CacheResponse(response_cache, th[t].cache_key,
                                     th[t].response.val, th[t].model_used)
                gone == CacheKeys(response_cache) \ CacheKeys(new)
            IN /\ response_cache' = new
               /\ th' = [Wipe(th, gone) EXCEPT ![t].pc = "count_load",
                                               ![t].last_out = NoOutcome]
               /\ answered' = {a \in answered : a.key \notin gone}
               /\ standing' = {a \in standing :
                                  a.key \notin gone /\ a.key # th[t].cache_key}
               /\ inserted' = inserted + 1
       ELSE /\ th' = [th EXCEPT ![t].pc = "count_load", ![t].last_out = NoOutcome]
            /\ UNCHANGED <<response_cache, answered, standing, inserted>>
    /\ UNCHANGED <<request_count, total_response_time, started, audioVars, recVars, trVars>>

\* line 84, `self.request_count += 1`: the load
CountLoad(t) ==
    /\ th[t].pc = "count_load"
    /\ th' = [th EXCEPT ![t].pc = "count_store", ![t].reg = request_count]
    /\ UNCHANGED <<response_cache, request_count, total_response_time, started,
                   answered, standing, inserted, audioVars, recVars, trVars>>

\* line 84: the store
CountStore(t) ==
    /\ th[t].pc = "count_store"
    /\ request_count' = th[t].reg + 1
    /\ th' = [th EXCEPT ![t].pc = "time_load", ![t].reg = 0]
    /\ UNCHANGED <<response_cache, total_response_time, started,
                   answered, standing, inserted, audioVars, recVars, trVars>>

\* line 85, `self.total_response_time += response_time`: the load
TimeLoad(t) ==
    /\ th[t].pc = "time_load"
    /\ th' = [th EXCEPT ![t].pc = "time_store", ![t].reg = total_response_time]
    /\ UNCHANGED <<response_cache, request_count, total_response_time, started,
                   answered, standing, inserted, audioVars, recVars, trVars>>

\* line 85: the store
TimeStore(t) ==
    /\ th[t].pc = "time_store"
    /\ total_response_time' = th[t].reg + th[t].response_time
    /\ th' = [th EXCEPT ![t].pc = "return", ![t].reg = 0]
    /\ UNCHANGED <<response_cache, request_count, started,
                   answered, standing, inserted, audioVars, recVars, trVars>>

\* lines 62 and 87: the caller receives (response, model_used, response_time)
Return(t) ==
    /\ th[t].pc = "return"
    /\ th' = [th EXCEPT ![t] = Idle]
    /\ LET mine == [key |-> th[t].cache_key, response |-> th[t].response.val,
                    model |-> th[t].model_used]
           real == HasStored(t) /\ ~th[t].wiped
           kept == LET c == DictGet(response_cache, mine.key)
                   IN c.found /\ c.response = mine.response /\ c.model = mine.model
       IN /\ answered' = IF real THEN answered \cup {mine} ELSE answered
          /\ standing' = IF real /\ kept THEN standing \cup {mine} ELSE standing
    /\ UNCHANGED <<response_cache, request_count, total_response_time, started,
                   inserted, audioVars, recVars, trVars>>

\* mutant of ClearCache: the counters reset with the cache
ClearCacheAndCounters ==
    /\ response_cache' = <<>>
    /\ request_count' = 0
    /\ total_response_time' = 0
    /\ answered' = {}
    /\ standing' = {}
    /\ inserted' = 0
    /\ th' = Wipe(th, CacheKeys(response_cache))
    /\ UNCHANGED <<started, audioVars, recVars, trVars>>

\* clear_cache (under cache_lock)
ClearCache ==
    /\ response_cache' = <<>>
    /\ answered' = {}
    /\ standing' = {}
    /\ inserted' = 0
    /\ th' = Wipe(th, CacheKeys(response_cache))
    /\ UNCHANGED <<request_count, total_response_time, started, audioVars, recVars, trVars>>

(***************************************************************************)
(* Inputs of get_response.                                                 *)
(***************************************************************************)
DATA_SCIENCE == <<"d", "a", "t", "a", "_", "s", "c", "i", "e", "n", "c", "e">>

\* two wordings of one question: both have the key "data_science:ai?"
SameKeyQuestions ==
    { <<"W", "h", "a", "t", " ", "i", "s", " ", "A", "I", "?">>,
      <<"w", "h", "a", "t", " ", "i", "s", " ", "t", "h", "e", " ", " ", "a", "i", "?", " ">> }

Questions ==
    SameKeyQuestions \cup { <<"E", "x", "p", "l", "a", "i", "n", " ", "S", "Q", "L">> }

\* the n-th of a series of one-word questions with pairwise distinct keys
NthQuestion(n) == <<"q", LOWER[(n \div 26) + 1], LOWER[(n % 26) + 1]>>

AllIdle == \A t \in Threads : th[t].pc = "idle"

\* calls that have begun and may still store their answer
Pending == Cardinality({t \in Threads : th[t].pc \in {"try_primary", "try_fallback", "cache"}})

InitAI ==
    /\ response_cache = <<>>
    /\ request_count = 0
    /\ total_response_time = 0
    /\ th = [t \in Threads |-> Idle]
    /\ started = 0
    /\ answered = {}
    /\ standing = {}
    /\ inserted = 0

InitAudio ==
    /\ audio_buffer = <<>>
    /\ chunk_call = [duration |-> 0, kind |-> "unset", data |-> <<>>]
    /\ delivered = <<>>

\* an absent device index (None); PyAudio's indices count from 0
NoDevice == -1

\* no start_recording or stop_recording call was made yet
NoCall == [op |-> "none", devices |-> <<>>, raises_at |-> NoDevice, default |-> NoDevice,
           outcome |-> "none", result |-> "None", was_recording |-> FALSE,
           was_stream |-> "none"]

\* AudioManager.__init__
InitRecording ==
    /\ is_recording = FALSE
    /\ stream = "none"
    /\ device_index = NoDevice
    /\ callbacks = 0
    /\ rec_call = NoCall

\* the transcriber before its constructor ran
NoEngine == [initialized |-> FALSE, model |-> FALSE, model_loaded |-> FALSE,
             whisper_cpp_path |-> None, load_ok |-> FALSE, present |-> {},
             probed |-> <<>>]

NoHolder == "free"

TThreads == {"p1", "p2"}

\* a confidence num / den
Conf(num, den) == [num |-> num, den |-> den]

\* the tuple ("", 0.0)
EmptyResult == [text |-> <<>>, confidence |-> Conf(0, 1)]

\* temp is what became of the temporary wav file of the call
TIdle == [pc |-> "idle", result |-> EmptyResult, route |-> "none", last_out |-> [kind |-> "none"],
          temp |-> "none"]

InitTranscriber ==
    /\ engine = NoEngine
    /\ lock = NoHolder
    /\ tt = [t \in TThreads |-> TIdle]
    /\ tcalls = 0

\* no question asked yet
NoQuestion == [asked |-> FALSE, question |-> <<>>, context |-> <<>>, words |-> <<>>,
               padded |-> FALSE, key |-> <<>>]

InitKey == kq = NoQuestion

\* clear_cache was not called yet
NeverCleared == [keys |-> {}, restored |-> {}, first |-> {}]

InitCleared == cleared = NeverCleared

\* no AudioProcessingThread yet; __init__ sets running and processing False
NoThread == [state |-> "none", pc |-> "none", running |-> FALSE, processing |-> FALSE,
             failed |-> FALSE, chunks |-> 0, raised |-> 0]

\* last_answer is "": key is, as history, the cache key of the call whose
\* answer last_answer and the overlay hold
NoAnswer == [response |-> <<>>, model |-> NO_MODEL, key |-> <<>>]

\* the threads that call stop_recording: the UI thread through
\* AudioProcessingThread.stop, the audio thread at the end of run()
Callers == {"ui", "audio"}

\* nobody is inside stop_recording
NoStoppers == [pc |-> [c \in Callers |-> "idle"], stop_calls |-> 0, close_calls |-> 0]

InitOrchestrator ==
    /\ stoppers = NoStoppers
    /\ status = "ready"                  \* src/main.py:446
    /\ audio_thread = NoThread
    /\ is_listening = FALSE
    /\ ui = [pc |-> "idle", starts |-> 0, last |-> "none"]
    /\ signals = <<>>
    /\ sink = [heard |-> <<>>, events |-> 0, asked |-> {}, returned |-> 0, answers |-> 0, logged |-> 0,
               last |-> NoAnswer, errors |-> 0, overlay |-> {}, last_question |-> <<>>]

\* threading.Lock(), not held
Unlocked == [holder |-> NoHolder, keys_to_remove |-> <<>>, deleted |-> 0]

\* get_stats was not called yet
NoStats == [called |-> FALSE, total_requests |-> 0, cache_size |-> 0, during |-> "none"]

InitStats == cache_lock = Unlocked /\ stats = NoStats

InitApp == InitKey /\ InitCleared /\ InitStats /\ InitOrchestrator

Init == InitAI /\ InitAudio /\ InitRecording /\ InitTranscriber /\ InitApp

\* the AI threads answer wordings of one question at once (src/main.py:271-274,
\* one thread per transcription) while the cache may be cleared
Next ==
    \/ \E t \in Threads, q \in SameKeyQuestions : Begin(t, q, DATA_SCIENCE, MaxRequests) /\ UNCHANGED appVars
    \/ \E t \in Threads, o \in SomeOutcomes, e \in 1..MaxElapsed : TryPrimary(t, o, e) /\ UNCHANGED appVars
    \/ \E t \in Threads, o \in SomeOutcomes, e \in 1..MaxElapsed : TryFallback(t, o, e) /\ UNCHANGED appVars
    \/ \E t \in Threads : CacheStep(t) /\ UNCHANGED appVars
    \/ \E t \in Threads : CountLoad(t) /\ UNCHANGED appVars
    \/ \E t \in Threads : CountStore(t) /\ UNCHANGED appVars
    \/ \E t \in Threads : TimeLoad(t) /\ UNCHANGED appVars
    \/ \E t \in Threads : TimeStore(t) /\ UNCHANGED appVars
    \/ \E t \in Threads : Return(t) /\ UNCHANGED appVars
    \/ ClearCache /\ UNCHANGED appVars

Spec == Init /\ [][Next]_vars

\* one caller at a time, every question and every transport outcome
NextCalls ==
    \/ \E q \in Questions : Begin("t1", q, DATA_SCIENCE, MaxRequests) /\ UNCHANGED appVars
    \/ \E o \in Outcomes, e \in 1..MaxElapsed : TryPrimary("t1", o, e) /\ UNCHANGED appVars
    \/ \E o \in Outcomes, e \in 1..MaxElapsed : TryFallback("t1", o, e) /\ UNCHANGED appVars
    \/ CacheStep("t1") /\ UNCHANGED appVars
    \/ CountLoad("t1") /\ UNCHANGED appVars
    \/ CountStore("t1") /\ UNCHANGED appVars
    \/ TimeLoad("t1") /\ UNCHANGED appVars
    \/ TimeStore("t1") /\ UNCHANGED appVars
    \/ Return("t1") /\ UNCHANGED appVars
    \/ ClearCache /\ UNCHANGED appVars

SpecCalls == Init /\ [][NextCalls]_vars

\* one caller fills the cache with answered questions of pairwise distinct keys
NextCache ==
    \/ Begin("t1", NthQuestion(started), DATA_SCIENCE, MaxFill) /\ UNCHANGED appVars
    \/ \E o \in GoodOutcomes : TryPrimary("t1", o, 1) /\ UNCHANGED appVars
    \/ CacheStep("t1") /\ UNCHANGED appVars
    \/ CountLoad("t1") /\ UNCHANGED appVars
    \/ CountStore("t1") /\ UNCHANGED appVars
    \/ TimeLoad("t1") /\ UNCHANGED appVars
    \/ TimeStore("t1") /\ UNCHANGED appVars
    \/ Return("t1") /\ UNCHANGED appVars
    \/ ClearCache /\ UNCHANGED appVars

SpecCache == Init /\ [][NextCache]_vars

\* the one-word question of a key of the context "data_science"
QuestionOf(key) == Drop(key, Len(DATA_SCIENCE) + 1)

\* a thread asks a question nobody asked before
AskNew(t) == Begin(t, NthQuestion(inserted), DATA_SCIENCE, MaxAsked)

\* a thread asks the question of the oldest entry of a cache that is over
\* its limit
AskOldest(t) ==
    /\ OverLimit(response_cache)
    /\ Begin(t, QuestionOf(response_cache[1].key), DATA_SCIENCE, MaxAsked)

\* the second thread asks the first question while the first call for it is
\* under way
AskFirstAgain ==
    /\ inserted = 0
    /\ th["t1"].pc \in {"try_primary", "cache"}
    /\ Begin("t2", NthQuestion(0), DATA_SCIENCE, MaxAsked)

\* the second thread's model answers late, when the cache is over its limit
LateAnswer(o) == OverLimit(response_cache) /\ TryPrimary("t2", o, 1)

\* one thread fills the cache past its limit; entries are read again, and
\* the first key is stored twice, before they are evicted
NextEvict ==
    \/ AskNew("t1") /\ UNCHANGED appVars
    \/ \E t \in Threads : AskOldest(t) /\ UNCHANGED appVars
    \/ AskFirstAgain /\ UNCHANGED appVars
    \/ \E o \in GoodOutcomes : TryPrimary("t1", o, 1) /\ UNCHANGED appVars
    \/ \E o \in GoodOutcomes : LateAnswer(o) /\ UNCHANGED appVars
    \/ \E t \in Threads : CacheStep(t) /\ UNCHANGED appVars
    \/ \E t \in Threads : CountLoad(t) /\ UNCHANGED appVars
    \/ \E t \in Threads : CountStore(t) /\ UNCHANGED appVars
    \/ \E t \in Threads : TimeLoad(t) /\ UNCHANGED appVars
    \/ \E t \in Threads : TimeStore(t) /\ UNCHANGED appVars
    \/ \E t \in Threads : Return(t) /\ UNCHANGED appVars

SpecEvict == Init /\ [][NextEvict]_vars

(***************************************************************************)
(* _cache_response statement by statement, and get_stats.  The other       *)
(* specifications take _cache_response as one step, which is what the      *)
(* callers that take cache_lock see of it.                                 *)
(***************************************************************************)
\* `with self.cache_lock:` of _get_cached_response, then lines 55-62
LockedLookUp(t) ==
    /\ cache_lock.holder = NoHolder
    /\ Begin(t, NthQuestion(started), DATA_SCIENCE, MaxFill)
    /\ UNCHANGED <<kq, cleared, cache_lock, stats, orchVars>>

\* lines 170-174: the lock is taken and the keys to remove are listed
StoreBegins(t) ==
    /\ th[t].pc = "cache"
    /\ ShouldCache(th[t].response, th[t].model_used)
    /\ cache_lock.holder = NoHolder
    /\ cache_lock' = [holder |-> t,
                      keys_to_remove |->
                          IF OverLimit(response_cache)
                          THEN [i \in 1..EVICT_BATCH |-> response_cache[i].key]
                          ELSE <<>>,
                      deleted |-> 0]
    /\ UNCHANGED <<kq, cleared, stats, orchVars, aiVars, audioVars, recVars, trVars>>

\* lines 175-176, one turn of the loop: `del self.response_cache[key]`
DeleteKey(t) ==
    /\ cache_lock.holder = t
    /\ cache_lock.keys_to_remove # <<>>
    /\ LET key == Head(cache_lock.keys_to_remove) IN
       /\ response_cache' = SelectSeq(response_cache, LAMBDA e : e.key # key)
       /\ th' = Wipe(th, {key})
       /\ answered' = {a \in answered : a.key # key}
       /\ standing' = {a \in standing : a.key # key}
    /\ cache_lock' = [cache_lock EXCEPT !.keys_to_remove = Tail(@), !.deleted = @ + 1]
    /\ UNCHANGED <<request_count, total_response_time, started, inserted>>
    /\ UNCHANGED <<kq, cleared, stats, orchVars, audioVars, recVars, trVars>>

\* line 178 and the end of the `with` block
StoreEnds(t) ==
    /\ cache_lock.holder = t
    /\ cache_lock.keys_to_remove = <<>>
    /\ CacheStep(t)
    /\ cache_lock' = Unlocked
    /\ UNCHANGED <<kq, cleared, stats, orchVars>>

\* where a _cache_response call is when the cache is read
Phase(l) ==
    IF l.holder = NoHolder THEN "free"
    ELSE IF l.deleted = 0 THEN "held"
    ELSE "evicting"

\* get_stats, lines 182-190: it takes no lock
GetStats ==
    /\ ~stats.called
    /\ stats' = [called |-> TRUE,
                 total_requests |-> request_count,
                 cache_size |-> Len(response_cache),
                 during |-> Phase(cache_lock)]
    /\ UNCHANGED <<kq, cleared, cache_lock, orchVars, aiVars, audioVars, recVars, trVars>>

\* an AI thread fills the cache past its limit; Show Stats is used once
NextStats ==
    \/ LockedLookUp("t1")
    \/ \E o \in GoodOutcomes : TryPrimary("t1", o, 1) /\ UNCHANGED appVars
    \/ StoreBegins("t1")
    \/ DeleteKey("t1")
    \/ StoreEnds("t1")
    \/ CountLoad("t1") /\ UNCHANGED appVars
    \/ CountStore("t1") /\ UNCHANGED appVars
    \/ TimeLoad("t1") /\ UNCHANGED appVars
    \/ TimeStore("t1") /\ UNCHANGED appVars
    \/ Return("t1") /\ UNCHANGED appVars
    \/ GetStats

SpecStats == Init /\ [][NextStats]_vars

(***************************************************************************)
(* The cache key of a question that grows word by word.  kq.words is the   *)
(* list of the words put into the question, kq.key the key computed from   *)
(* the string.                                                             *)
(***************************************************************************)
GENERAL == <<"g", "e", "n", "e", "r", "a", "l">>

\* the context get_response is called with (src/main.py:280)
Contexts == {DATA_SCIENCE}

\* a stop-word with a capital, a short word, and two words that are kept
QuestionWords ==
    { <<"W", "h", "a", "t">>, <<"A", "I">>, <<"S", "Q", "L">>, <<"E", "T", "L">> }

\* get_response(question, context) is asked with the empty question
Ask(context) ==
    /\ ~kq.asked
    /\ kq' = [NoQuestion EXCEPT !.asked = TRUE, !.context = context,
                                !.key = GetCacheKey(<<>>, context)]
    /\ UNCHANGED <<cleared, cache_lock, stats, aiVars, audioVars, recVars, trVars, orchVars>>

\* the question gets one more word, after a blank when it is not the first
AppendWord(w) ==
    /\ kq.asked
    /\ Len(kq.words) < MaxQuestionWords
    /\ LET question == kq.question \o (IF kq.words = <<>> THEN <<>> ELSE <<" ">>) \o w IN
       kq' = [kq EXCEPT !.question = question,
                        !.words = Append(kq.words, w),
                        !.key = GetCacheKey(question, kq.context)]
    /\ UNCHANGED <<cleared, cache_lock, stats, aiVars, audioVars, recVars, trVars, orchVars>>

\* the question gets one more white-space character, once
Pad ==
    /\ kq.asked
    /\ ~kq.padded
    /\ LET question == kq.question \o <<"\t">> IN
       kq' = [kq EXCEPT !.question = question,
                        !.padded = TRUE,
                        !.key = GetCacheKey(question, kq.context)]
    /\ UNCHANGED <<cleared, cache_lock, stats, aiVars, audioVars, recVars, trVars, orchVars>>

NextKey ==
    \/ \E context \in Contexts : Ask(context)
    \/ \E w \in QuestionWords : AppendWord(w)
    \/ Pad

SpecKey == Init /\ [][NextKey]_vars

(***************************************************************************)
(* clear_cache among get_response calls.  cleared.keys are the keys the    *)
(* last clear_cache removed that no call has looked up since,              *)
(* cleared.restored those of them a call has stored since, cleared.first   *)
(* the threads whose call was the first to look such a key up.             *)
(***************************************************************************)
EXPLAIN_SQL == <<"E", "x", "p", "l", "a", "i", "n", " ", "S", "Q", "L">>

\* two questions with different keys
ClearQuestions == { <<"W", "h", "a", "t", " ", "i", "s", " ", "A", "I", "?">>, EXPLAIN_SQL }

\* get_response begins: lines 55-62
LookUp(t, question) ==
    /\ Begin(t, question, DATA_SCIENCE, MaxRequests)
    /\ LET key == GetCacheKey(question, DATA_SCIENCE) IN
       cleared' = IF key \in cleared.keys
                  THEN [keys |-> cleared.keys \ {key},
                        restored |-> cleared.restored \ {key},
                        first |-> cleared.first \cup {t}]
                  ELSE [cleared EXCEPT !.first = @ \ {t}]
    /\ UNCHANGED <<kq, cache_lock, stats, orchVars>>

\* lines 79-81
Store(t) ==
    /\ CacheStep(t)
    /\ cleared' = IF ShouldCache(th[t].response, th[t].model_used)
                  THEN [cleared EXCEPT !.restored = @ \cup ({th[t].cache_key} \cap cleared.keys)]
                  ELSE cleared
    /\ UNCHANGED <<kq, cache_lock, stats, orchVars>>

\* clear_cache
Clear ==
    /\ ClearCache
    /\ cleared' = [keys |-> CacheKeys(response_cache), restored |-> {}, first |-> {}]
    /\ UNCHANGED <<kq, cache_lock, stats, orchVars>>

\* two threads ask, the cache is cleared at any moment
NextClear ==
    \/ \E t \in Threads, q \in ClearQuestions : LookUp(t, q)
    \/ \E t \in Threads, o \in SomeOutcomes : TryPrimary(t, o, 1) /\ UNCHANGED appVars
    \/ \E t \in Threads, o \in SomeOutcomes : TryFallback(t, o, 1) /\ UNCHANGED appVars
    \/ \E t \in Threads : Store(t)
    \/ \E t \in Threads : CountLoad(t) /\ UNCHANGED appVars
    \/ \E t \in Threads : CountStore(t) /\ UNCHANGED appVars
    \/ \E t \in Threads : TimeLoad(t) /\ UNCHANGED appVars
    \/ \E t \in Threads : TimeStore(t) /\ UNCHANGED appVars
    \/ \E t \in Threads : Return(t) /\ UNCHANGED appVars
    \/ Clear

SpecClear == Init /\ [][NextClear]_vars

(***************************************************************************)
(* AudioManager: the ring buffer, the capture callback and chunk           *)
(* extraction.  Samples are numpy int16 scalars; a normalised sample n     *)
(* stands for n / 32768.                                                   *)
(***************************************************************************)
INT16_SPAN == 65536     \* 2^16, the values of an int16
INT16_MIN == -32768
SILENCE_NUM == 1        \* SILENCE_THRESHOLD = 0.01 = SILENCE_NUM / SILENCE_DEN
SILENCE_DEN == 100

Samples == {0, 1, 256}

\* deque(maxlen=int(CONFIG.audio.SAMPLE_RATE * 30))
BufferMaxLen == SAMPLE_RATE * BUFFER_SECONDS

\* the last n elements of seq, all of it when it is shorter
LastN(seq, n) == IF Len(seq) <= n THEN seq ELSE SubSeq(seq, Len(seq) - n + 1, Len(seq))

\* mutant of Extend: a full deque that refuses new samples
ExtendKeepOldest(buffer, block) == Take(buffer \o block, BufferMaxLen)

\* deque.extend(block) on a deque with maxlen: the oldest samples fall out
Extend(buffer, block) == LastN(buffer \o block, BufferMaxLen)

\* mutant of AfterRead: the chunk is consumed, the buffer is left empty
AfterReadDrained(buffer) == <<>>

\* len(), list() and slicing the list read the deque: it is left as it was
AfterRead(buffer) == buffer

\* int(CONFIG.audio.SAMPLE_RATE * duration) for a duration d >= 0
SamplesNeeded(d) == (SAMPLE_RATE * d) \div DurationUnits

\* mutant of NotEnough: the comparison off by one
NotEnoughOffByOne(buffer, samples_needed) == Len(buffer) + 1 < samples_needed

\* `len(self.audio_buffer) < samples_needed`
NotEnough(buffer, samples_needed) == Len(buffer) < samples_needed

\* mutant of SliceLast: the oldest samples, `list(self.audio_buffer)[:samples_needed]`
SliceFirst(buffer, samples_needed) == Take(buffer, samples_needed)

\* `list(self.audio_buffer)[-samples_needed:]`: the slice [-0:] is the whole list
SliceLast(buffer, samples_needed) ==
    IF samples_needed = 0 THEN buffer ELSE LastN(buffer, samples_needed)

\* an int16 product wraps around
Wrap16(x) == ((x - INT16_MIN) % INT16_SPAN) + INT16_MIN

\* the sum of chunk**2, each square an int16
RECURSIVE SumSquares(_)
SumSquares(chunk) ==
    IF chunk = <<>> THEN 0 ELSE Wrap16(Head(chunk) * Head(chunk)) + SumSquares(Tail(chunk))

\* `rms < CONFIG.audio.SILENCE_THRESHOLD` for rms = sqrt(mean(chunk**2)): the mean
\* of an empty chunk and the root of a negative mean are nan, and nan < x is False
BelowThreshold(chunk) ==
    /\ chunk # <<>>
    /\ SumSquares(chunk) >= 0
    /\ SumSquares(chunk) * SILENCE_DEN * SILENCE_DEN < SILENCE_NUM * SILENCE_NUM * Len(chunk)

\* get_audio_chunk: None, or the chunk as float32 over 32768
GetAudioChunkResult(buffer, d) ==
    LET samples_needed == SamplesNeeded(d) IN
    IF NotEnough(buffer, samples_needed)
    THEN [duration |-> d, kind |-> "none", data |-> <<>>]
    ELSE LET chunk == SliceLast(buffer, samples_needed) IN
         IF BelowThreshold(chunk)
         THEN [duration |-> d, kind |-> "none", data |-> <<>>]
         ELSE [duration |-> d, kind |-> "chunk", data |-> chunk]

\* _audio_callback: the samples of in_data go into the ring buffer; the record
\* of the last get_audio_chunk call is about the buffer as it was and is dropped
AudioCallback(block) ==
    /\ Len(delivered) + Len(block) <= MaxDelivered
    /\ audio_buffer' = Extend(audio_buffer, block)
    /\ chunk_call' = [duration |-> 0, kind |-> "unset", data |-> <<>>]
    /\ delivered' = delivered \o block
    /\ UNCHANGED <<aiVars, recVars, trVars>>

\* get_audio_chunk(duration)
GetAudioChunk(d) ==
    /\ chunk_call' = GetAudioChunkResult(audio_buffer, d)
    /\ audio_buffer' = AfterRead(audio_buffer)
    /\ UNCHANGED <<delivered, aiVars, recVars, trVars>>

\* the blocks of 1 to MaxBlock samples
Blocks == UNION {[1..n -> Samples] : n \in 1..MaxBlock}

\* capture callbacks and chunk extractions in any order
NextAudio ==
    \/ \E block \in Blocks : AudioCallback(block) /\ UNCHANGED appVars
    \/ \E d \in 0..MaxDuration : GetAudioChunk(d) /\ UNCHANGED appVars

SpecAudio == Init /\ [][NextAudio]_vars

(***************************************************************************)
(* AudioManager: device selection, start_recording and stop_recording.     *)
(* A device is PyAudio's info dict, its index is its position from 0.  An  *)
(* absent device index (None) is NoDevice, defined with Init.              *)
(***************************************************************************)
\* CONFIG.VIRTUAL_AUDIO_DEVICES
VIRTUAL_AUDIO_DEVICES ==
    << <<"V", "B", "-", "A", "u", "d", "i", "o">>,
       <<"C", "A", "B", "L", "E">>,
       <<"S", "t", "e", "r", "e", "o", " ", "M", "i", "x">>,
       <<"W", "h", "a", "t", " ", "U", " ", "H", "e", "a", "r">>,
       <<"V", "i", "r", "t", "u", "a", "l", " ", "A", "u", "d", "i", "o", " ", "C", "a", "b", "l", "e">>,
       <<"V", "o", "i", "c", "e", "M", "e", "e", "t", "e", "r">> >>

\* str.upper(), one character
UpperChar(c) ==
    IF \E i \in 1..26 : LOWER[i] = c
    THEN UPPER[CHOOSE i \in 1..26 : LOWER[i] = c]
    ELSE c

\* str.upper()
Upper(str) == [i \in 1..Len(str) |-> UpperChar(str[i])]

\* `sub in str`
Contains(sub, str) ==
    \E i \in 1..(Len(str) - Len(sub) + 1) : SubSeq(str, i, i + Len(sub) - 1) = sub

\* lines 27-30: some marker, upper-cased, occurs in the upper-cased name
NameMatches(name) ==
    \E m \in 1..Len(VIRTUAL_AUDIO_DEVICES) :
        Contains(Upper(VIRTUAL_AUDIO_DEVICES[m]), Upper(name))

\* the info dicts PyAudio may report: a loopback capture device with a
\* lower-case name, a loopback device without input channels, a microphone
CableOut == [name |-> <<"c", "a", "b", "l", "e", " ", "o", "u", "t">>, maxInputChannels |-> 2]
VoiceMeeterOut == [name |-> <<"V", "o", "i", "c", "e", "M", "e", "e", "t", "e", "r", " ", "O", "u", "t">>, maxInputChannels |-> 0]
Mic == [name |-> <<"M", "i", "c">>, maxInputChannels |-> 1]
DeviceInfos == {CableOut, VoiceMeeterOut, Mic}

\* lines 27-30 on each of these infos: the ones whose name holds a marker
MarkedInfos == {info \in DeviceInfos : NameMatches(info.name)}

DeviceLists == UNION {[1..n -> DeviceInfos] : n \in 0..MaxDevices}

\* what PyAudio does during one start_recording call: the devices it
\* enumerates, the index whose get_device_info_by_index raises (NoDevice when
\* none does), the index get_default_input_device_info reports (NoDevice when
\* it raises), and how opening and starting the stream goes
OpenOutcomes == {"ok", "open_raises", "start_raises"}

\* the indices the default input device of a device list can have: those of
\* the devices with input channels
Defaults(ds) == {i \in 0..(Len(ds) - 1) : ds[i + 1].maxInputChannels > 0}

Environments ==
    UNION { { [devices |-> ds, raises_at |-> r, default |-> d, open |-> o] :
                r \in NoDevice..(Len(ds) - 1),
                d \in {NoDevice} \cup Defaults(ds),
                o \in OpenOutcomes } : ds \in DeviceLists }

\* lines 24-36: the loop over the devices from index i on; it ends with the
\* index returned at line 33, or without one when the devices are exhausted
\* or a lookup raised
RECURSIVE ScanDevices(_, _)
ScanDevices(env, i) ==
    IF i >= Len(env.devices) \/ i = env.raises_at
    THEN NoDevice
    ELSE LET info == env.devices[i + 1] IN
         IF info \in MarkedInfos /\ info.maxInputChannels > 0
         THEN i
         ELSE ScanDevices(env, i + 1)

\* mutant of DefaultDevice: device 0 taken for the default
DefaultDeviceZero(env) == 0

\* lines 39-45: the default input device's index, None when the lookup raises
DefaultDevice(env) == env.default

\* mutant of FindVirtualAudioDevice: the scan of the devices left out
FindDefaultOnly(env) == DefaultDevice(env)

\* find_virtual_audio_device
FindVirtualAudioDevice(env) ==
    LET found == ScanDevices(env, 0) IN
    IF found # NoDevice THEN found ELSE DefaultDevice(env)

StartCall(env, outcome, result) ==
    [op |-> "start", devices |-> env.devices, raises_at |-> env.raises_at,
     default |-> env.default, outcome |-> outcome, result |-> result,
     was_recording |-> is_recording, was_stream |-> stream]

\* start_recording
StartRecording(env) ==
    /\ IF is_recording
       THEN \* lines 49-50
            /\ rec_call' = [NoCall EXCEPT !.op = "start", !.result = "False",
                                          !.was_recording = TRUE, !.was_stream = stream]
            /\ UNCHANGED <<is_recording, stream, device_index, callbacks>>
       ELSE LET index == FindVirtualAudioDevice(env) IN
            /\ device_index' = index             \* line 52
            /\ IF index = NoDevice
               THEN \* lines 53-55
                    /\ rec_call' = StartCall(env, "none", "False")
                    /\ UNCHANGED <<is_recording, stream, callbacks>>
               ELSE CASE env.open = "open_raises" ->      \* line 58 raises, lines 75-77
                           /\ rec_call' = StartCall(env, env.open, "False")
                           /\ UNCHANGED <<is_recording, stream, callbacks>>
                      [] env.open = "start_raises" ->     \* line 70 raises, lines 75-77
                           /\ stream' = "opened"
                           /\ callbacks' = callbacks + 1
                           /\ is_recording' = TRUE
                           /\ rec_call' = StartCall(env, env.open, "False")
                      [] OTHER ->                         \* lines 58-73
                           /\ stream' = "active"
                           /\ callbacks' = callbacks + 1
                           /\ is_recording' = TRUE
                           /\ rec_call' = StartCall(env, env.open, "True")
    /\ UNCHANGED <<aiVars, audioVars, trVars>>

StopOutcomes == {"ok", "stop_raises", "close_raises"}

StopCall(outcome) ==
    [NoCall EXCEPT !.op = "stop", !.outcome = outcome,
                   !.was_recording = is_recording, !.was_stream = stream]

\* stop_recording; outcome is how stop_stream() and close() go
StopRecording(outcome) ==
    /\ IF ~is_recording
       THEN \* lines 130-131
            /\ rec_call' = StopCall("none")
            /\ UNCHANGED <<is_recording, stream, callbacks>>
       ELSE IF stream = "none"
       THEN \* lines 134, 138-140
            /\ is_recording' = FALSE
            /\ callbacks' = 0
            /\ rec_call' = StopCall("none")
            /\ UNCHANGED stream
       ELSE CASE outcome = "stop_raises" ->      \* line 135 raises, lines 142-143
                   /\ rec_call' = StopCall(outcome)
                   /\ UNCHANGED <<is_recording, stream, callbacks>>
              [] outcome = "close_raises" ->     \* line 136 raises, lines 142-143
                   /\ stream' = "stopped"
                   /\ rec_call' = StopCall(outcome)
                   /\ UNCHANGED <<is_recording, callbacks>>
              [] OTHER ->                        \* lines 135-140
                   /\ stream' = "closed"
                   /\ is_recording' = FALSE
                   /\ callbacks' = 0
                   /\ rec_call' = StopCall(outcome)
    /\ UNCHANGED <<device_index, aiVars, audioVars, trVars>>

\* the running stream calls _audio_callback with a block of
\* frames_per_buffer samples (line 64), here MaxBlock
Deliver ==
    /\ stream = "active"
    /\ AudioCallback([i \in 1..MaxBlock |-> 1])

\* the audio thread starts recording after construction or after a stop
\* (src/main.py:45, 80, 90); stops and deliveries come in any order
NextRecording ==
    \/ \E env \in Environments : rec_call.op # "start" /\ StartRecording(env) /\ UNCHANGED appVars
    \/ \E outcome \in StopOutcomes : StopRecording(outcome) /\ UNCHANGED appVars
    \/ Deliver /\ UNCHANGED appVars

SpecRecording == Init /\ [][NextRecording]_vars

(***************************************************************************)
(* WhisperTranscriber.  A confidence is a rational num / den; a log        *)
(* probability is counted in hundredths.                                   *)
(***************************************************************************)
\* _check_whisper_cpp: possible_paths
possible_paths == <<"./whisper.cpp/main.exe", "./whisper.cpp/main", "whisper-cpp", "whisper">>

PathSet == {possible_paths[i] : i \in 1..Len(possible_paths)}

\* lines 48-55: the paths probed in order, up to the first one that exists
\* or runs; present is the set of paths for which
\* `os.path.exists(path) or self._command_exists(path)` holds
RECURSIVE CheckWhisperCpp(_, _)
CheckWhisperCpp(present, i) ==
    IF i > Len(possible_paths)
    THEN [path |-> None, probed |-> <<>>]
    ELSE IF possible_paths[i] \in present
    THEN [path |-> Some(possible_paths[i]), probed |-> <<possible_paths[i]>>]
    ELSE LET rest == CheckWhisperCpp(present, i + 1)
         IN [path |-> rest.path, probed |-> <<possible_paths[i]>> \o rest.probed]

\* __init__ and _initialize_whisper: load_ok is whether whisper.load_model
\* returns a model or raises
InitializeWhisper(load_ok, present) ==
    /\ ~engine.initialized
    /\ IF load_ok
       THEN engine' = [NoEngine EXCEPT !.initialized = TRUE, !.model = TRUE,
                                       !.model_loaded = TRUE, !.load_ok = TRUE,
                                       !.present = present]
       ELSE LET check == CheckWhisperCpp(present, 1)
            IN engine' = [NoEngine EXCEPT !.initialized = TRUE,
                                          !.whisper_cpp_path = check.path,
                                          !.present = present,
                                          !.probed = check.probed]
    /\ UNCHANGED <<lock, tt, tcalls, aiVars, audioVars, recVars>>

\* mutant of IsReady: the whisper.cpp path forgotten
IsReadyModelOnly(e) == e.model_loaded

\* is_ready
IsReady(e) == e.model_loaded \/ e.whisper_cpp_path.some

\* lines 75-81: which branch transcribe_audio takes
Route(e) ==
    IF e.model_loaded /\ e.model THEN "python"
    ELSE IF e.whisper_cpp_path.some /\ e.whisper_cpp_path.val # "" THEN "cpp"
    ELSE "unavailable"

\* mutant of LockFree: the lock not consulted
LockIgnored(l) == TRUE

\* threading.Lock: it can be acquired when nobody holds it
LockFree(l) == l = NoHolder

\* a thread calls transcribe_audio and arrives at `with self.lock`
Transcribe(t) ==
    /\ engine.initialized
    /\ tt[t].pc = "idle"
    /\ tcalls < MaxTranscriptions
    /\ tcalls' = tcalls + 1
    /\ tt' = [tt EXCEPT ![t] = [TIdle EXCEPT !.pc = "waiting"]]
    /\ UNCHANGED <<engine, lock, aiVars, audioVars, recVars>>

\* lines 72-81: the lock is acquired and the engine chosen; with no engine
\* the result is ("", 0.0) at once
Acquire(t) ==
    /\ tt[t].pc = "waiting"
    /\ LockFree(lock)
    /\ lock' = t
    /\ LET route == Route(engine) IN
       tt' = [tt EXCEPT ![t].pc = IF route = "unavailable" THEN "release" ELSE route,
                        ![t].route = route,
                        ![t].result = EmptyResult]
    /\ UNCHANGED <<engine, tcalls, aiVars, audioVars, recVars>>

\* segment['avg_logprob'] of a result of the local model, in hundredths; a
\* segment may lack the key, and the value may be nan
Segment(kind, lp) == [kind |-> kind, lp |-> lp]
LogProbs == {-250, -50, 0}
Segments == {Segment("absent", 0), Segment("nan", 0)} \cup {Segment("number", lp) : lp \in LogProbs}
SegmentLists == UNION {[1..n -> Segments] : n \in 0..MaxSegments}

HUNDRED == 100

Min(a, b) == IF a < b THEN a ELSE b
Max(a, b) == IF a > b THEN a ELSE b

\* line 181, min(1.0, max(0.0, avg_logprob + 1.0)) in hundredths; max(0.0, nan)
\* is 0.0, because nan > 0.0 is False
Clamp01(kind, lp) ==
    IF kind = "nan" THEN Min(HUNDRED, 0) ELSE Min(HUNDRED, Max(0, lp + HUNDRED))

\* lines 177-182: the confidences of the segments that have 'avg_logprob'
RECURSIVE Confidences(_)
Confidences(segments) ==
    IF segments = <<>> THEN <<>>
    ELSE LET seg == Head(segments) IN
         (IF seg.kind # "absent" THEN <<Clamp01(seg.kind, seg.lp)>> ELSE <<>>)
            \o Confidences(Tail(segments))

RECURSIVE Sum(_)
Sum(seq) == IF seq = <<>> THEN 0 ELSE Head(seq) + Sum(Tail(seq))

\* _calculate_confidence
CalculateConfidence(segments) ==
    IF segments = <<>> THEN Conf(0, 1)
    ELSE LET confidences == Confidences(segments) IN
         IF confidences # <<>>
         THEN Conf(Sum(confidences), HUNDRED * Len(confidences))
         ELSE Conf(0, 1)

\* the outcomes of self.model.transcribe: a result dict, or an exception
Texts == {<<"h", "i">>, <<" ", "h", "i", "\n">>, <<"\n">>, <<>>}
PythonOutcomes ==
    {[kind |-> "result", text |-> x, segments |-> segs] : x \in Texts, segs \in SegmentLists}
        \cup {[kind |-> "exception"]}

\* _transcribe_with_whisper_python
TranscribeWithWhisperPython(outcome) ==
    IF outcome.kind = "result"
    THEN [text |-> Strip(outcome.text),                          \* line 103
          confidence |-> CalculateConfidence(outcome.segments)]  \* line 106
    ELSE EmptyResult                                             \* lines 113-115

\* the outcomes of the whisper.cpp run: the subprocess ends with a return
\* code and a standard output and os.remove succeeds or raises, the
\* subprocess times out, or something else raises (writing the wav file,
\* starting the process) before or after the wav file exists
ReturnCodes == {0, 1}
CppOutcomes ==
    {[kind |-> "exit", returncode |-> rc, stdout |-> x, remove_ok |-> ok] :
        rc \in ReturnCodes, x \in Texts, ok \in BOOLEAN}
        \cup {[kind |-> "timeout"]}
        \cup {[kind |-> "exception", written |-> w] : w \in BOOLEAN}

\* lines 127-131 create the file, lines 150-154 remove it after subprocess.run
\* returned; the handlers of lines 165-170 remove nothing
TempFile(outcome) ==
    IF outcome.kind = "exit"
    THEN IF outcome.remove_ok THEN "removed" ELSE "remove_failed"
    ELSE IF outcome.kind = "timeout" THEN "left"
    ELSE IF outcome.written THEN "left" ELSE "none"

\* mutant of ExitOk: the return code not looked at
ExitAny(returncode) == TRUE

\* `result.returncode == 0`
ExitOk(returncode) == returncode = 0

\* the confidence of a whisper.cpp transcript, 0.8
CPP_CONFIDENCE == Conf(8, 10)

\* mutant of TranscribeWithWhisperCpp: the standard output not trimmed
CppUntrimmed(outcome) ==
    IF outcome.kind = "exit" /\ ExitOk(outcome.returncode)
    THEN [text |-> outcome.stdout, confidence |-> CPP_CONFIDENCE]
    ELSE EmptyResult

\* _transcribe_with_whisper_cpp
TranscribeWithWhisperCpp(outcome) ==
    IF outcome.kind = "exit"
    THEN IF ExitOk(outcome.returncode)
         THEN [text |-> Strip(outcome.stdout), confidence |-> CPP_CONFIDENCE]  \* 156-160
         ELSE EmptyResult                                                      \* 161-163
    ELSE EmptyResult                                                           \* 165-170

\* line 76: the local model runs and returns
RunPython(t, outcome) ==
    /\ tt[t].pc = "python"
    /\ tt' = [tt EXCEPT ![t].pc = "release",
                        ![t].result = TranscribeWithWhisperPython(outcome),
                        ![t].last_out = outcome]
    /\ UNCHANGED <<engine, lock, tcalls, aiVars, audioVars, recVars>>

\* line 78: the subprocess runs and returns
RunCpp(t, outcome) ==
    /\ tt[t].pc = "cpp"
    /\ tt' = [tt EXCEPT ![t].pc = "release",
                        ![t].result = TranscribeWithWhisperCpp(outcome),
                        ![t].last_out = outcome,
                        ![t].temp = TempFile(outcome)]
    /\ UNCHANGED <<engine, lock, tcalls, aiVars, audioVars, recVars>>

\* the `with` block is left: the lock is released and the caller has the result
Release(t) ==
    /\ tt[t].pc = "release"
    /\ lock' = NoHolder
    /\ tt' = [tt EXCEPT ![t].pc = "idle", ![t].last_out = [kind |-> "none"]]
    /\ UNCHANGED <<engine, tcalls, aiVars, audioVars, recVars>>

\* the polling thread transcribes, every engine and every outcome
NextTranscribe ==
    \/ \E load_ok \in BOOLEAN, present \in SUBSET PathSet : InitializeWhisper(load_ok, present) /\ UNCHANGED appVars
    \/ Transcribe("p1") /\ UNCHANGED appVars
    \/ Acquire("p1") /\ UNCHANGED appVars
    \/ \E outcome \in PythonOutcomes : RunPython("p1", outcome) /\ UNCHANGED appVars
    \/ \E outcome \in CppOutcomes : RunCpp("p1", outcome) /\ UNCHANGED appVars
    \/ Release("p1") /\ UNCHANGED appVars

SpecTranscribe == Init /\ [][NextTranscribe]_vars

\* several threads transcribe at once
SomePresent == {{}, {"whisper"}}
SomePythonOutcomes == {[kind |-> "exception"], [kind |-> "result", text |-> <<"h", "i">>, segments |-> <<>>]}
SomeCppOutcomes ==
    {[kind |-> "timeout"],
     [kind |-> "exit", returncode |-> 0, stdout |-> <<"h", "i">>, remove_ok |-> TRUE]}

NextLock ==
    \/ \E load_ok \in BOOLEAN, present \in SomePresent : InitializeWhisper(load_ok, present) /\ UNCHANGED appVars
    \/ \E t \in TThreads : Transcribe(t) /\ UNCHANGED appVars
    \/ \E t \in TThreads : Acquire(t) /\ UNCHANGED appVars
    \/ \E t \in TThreads, outcome \in SomePythonOutcomes : RunPython(t, outcome) /\ UNCHANGED appVars
    \/ \E t \in TThreads, outcome \in SomeCppOutcomes : RunCpp(t, outcome) /\ UNCHANGED appVars
    \/ \E t \in TThreads : Release(t) /\ UNCHANGED appVars

\* the engine returns from every run (the subprocess within its 30 s timeout),
\* a `with` block that is left releases the lock, and a free lock is handed to
\* a waiting thread
SpecLock ==
    /\ Init /\ [][NextLock]_vars
    /\ WF_vars(\E t \in TThreads : Acquire(t) /\ UNCHANGED appVars)
    /\ WF_vars(\E t \in TThreads, outcome \in SomePythonOutcomes : RunPython(t, outcome) /\ UNCHANGED appVars)
    /\ WF_vars(\E t \in TThreads, outcome \in SomeCppOutcomes : RunCpp(t, outcome) /\ UNCHANGED appVars)
    /\ WF_vars(\E t \in TThreads : Release(t) /\ UNCHANGED appVars)

(***************************************************************************)
(* The orchestrator of src/main.py.  Three kinds of threads take steps:    *)
(* the UI thread (start_listening, stop_listening and the slots of the     *)
(* signals), the audio thread (AudioProcessingThread.run, which is thread  *)
(* "p1" of the transcriber) and the AI threads of get_ai_response (the     *)
(* threads of get_response).  The capture stream delivers on its own.      *)
(***************************************************************************)
MIN_TRANSCRIPT == 3     \* `len(transcript.strip()) > 3`

Emit(sig, arg) == Append(signals, [sig |-> sig, arg |-> arg])

\* an overlay method (update_text, set_status) is called from a context
Touch(s, context) == [s EXCEPT !.overlay = @ \cup {context}]

\* mutant of Meaningful: three characters are enough
MeaningfulFromThree(transcript) ==
    transcript # <<>> /\ Len(Strip(transcript)) >= MIN_TRANSCRIPT

\* line 66: `transcript and len(transcript.strip()) > 3`
Meaningful(transcript) ==
    transcript # <<>> /\ Len(Strip(transcript)) > MIN_TRANSCRIPT

Alive == audio_thread.state = "started"

\* the thread ends by returning from run()
Finished(thread, failed) ==
    [thread EXCEPT !.state = "finished", !.pc = "done", !.failed = failed]

\* line 37
RunBegins ==
    /\ Alive /\ audio_thread.pc = "run"
    /\ audio_thread' = [audio_thread EXCEPT !.running = TRUE, !.pc = "ready"]
    /\ UNCHANGED <<kq, cleared, cache_lock, stats, stoppers, status, is_listening, ui, signals, sink, aiVars, audioVars, recVars, trVars>>

\* lines 40-42
CheckReady ==
    /\ Alive /\ audio_thread.pc = "ready"
    /\ IF ~IsReady(engine)
       THEN /\ signals' = Emit("error_occurred", <<>>)
            /\ sink' = [sink EXCEPT !.errors = @ + 1]
            /\ audio_thread' = Finished(audio_thread, TRUE)
       ELSE /\ audio_thread' = [audio_thread EXCEPT !.pc = "start"]
            /\ UNCHANGED <<signals, sink>>
    /\ UNCHANGED <<kq, cleared, cache_lock, stats, stoppers, status, is_listening, ui, aiVars, audioVars, recVars, trVars>>

\* lines 45-50
StartCapture(env) ==
    /\ Alive /\ audio_thread.pc = "start"
    /\ StartRecording(env)
    /\ IF rec_call'.result = "False"
       THEN /\ signals' = Emit("error_occurred", <<>>)
            /\ sink' = [sink EXCEPT !.errors = @ + 1]
            /\ audio_thread' = Finished(audio_thread, TRUE)
       ELSE /\ signals' = Emit("status_changed", <<"listening">>)
            /\ audio_thread' = [audio_thread EXCEPT !.pc = "loop"]
            /\ UNCHANGED sink
    /\ UNCHANGED <<kq, cleared, cache_lock, stats, stoppers, status, is_listening, ui>>

\* lines 53-54
LoopHead ==
    /\ Alive /\ audio_thread.pc = "loop"
    /\ audio_thread' = [audio_thread EXCEPT !.pc =
           IF ~audio_thread.running THEN "cleanup"
           ELSE IF ~audio_thread.processing THEN "extract" ELSE "sleep"]
    /\ UNCHANGED <<kq, cleared, cache_lock, stats, stoppers, status, is_listening, ui, signals, sink, aiVars, audioVars, recVars, trVars>>

\* mutant of Waits: the loop waits for the answers that are under way
WaitsForAnswers(threads) == \E t \in Threads : threads[t].pc # "idle"

\* the poll loop waits for no AI thread: run() joins none and shares no lock
\* with get_ai_response
Waits(threads) == FALSE

\* lines 56-60: the chunk, and what the loop does with it
Extract ==
    /\ Alive /\ audio_thread.pc = "extract"
    /\ ~Waits(th)
    /\ GetAudioChunk(CHUNK_DURATION)
    /\ IF chunk_call'.kind = "chunk" /\ Len(chunk_call'.data) > 0
       THEN /\ audio_thread' = [audio_thread EXCEPT !.processing = TRUE,
                                                   !.pc = "transcribe",
                                                   !.chunks = @ + 1]
            /\ signals' = Emit("status_changed", <<"processing">>)
       ELSE /\ audio_thread' = [audio_thread EXCEPT !.pc = "sleep"]
            /\ UNCHANGED signals
    /\ UNCHANGED <<kq, cleared, cache_lock, stats, stoppers, status, is_listening, ui, sink>>

\* line 56 raises: it is outside the try of line 62, the exception leaves run()
ExtractRaises ==
    /\ Alive /\ audio_thread.pc = "extract"
    /\ audio_thread' = [audio_thread EXCEPT !.state = "crashed", !.pc = "done"]
    /\ UNCHANGED <<kq, cleared, cache_lock, stats, stoppers, status, is_listening, ui, signals, sink, aiVars, audioVars, recVars, trVars>>

\* line 64: transcribe_audio is called
CallTranscribe ==
    /\ Alive /\ audio_thread.pc = "transcribe"
    /\ tcalls < MaxChunks
    /\ Transcribe("p1")
    /\ audio_thread' = [audio_thread EXCEPT !.pc = "transcribing"]
    /\ UNCHANGED <<kq, cleared, cache_lock, stats, stoppers, status, is_listening, ui, signals, sink>>

\* line 64 raises: lines 71-75
TranscribeRaises ==
    /\ Alive /\ audio_thread.pc = "transcribe"
    /\ tcalls < MaxChunks
    /\ tcalls' = tcalls + 1
    /\ signals' = Emit("error_occurred", <<>>)
    /\ sink' = [sink EXCEPT !.errors = @ + 1]
    /\ audio_thread' = [audio_thread EXCEPT !.processing = FALSE, !.pc = "sleep",
                                            !.raised = @ + 1]
    /\ UNCHANGED <<kq, cleared, cache_lock, stats, stoppers, status, is_listening, ui, engine, lock, tt, aiVars, audioVars, recVars>>

\* transcribe_audio is under way in the audio thread
Transcribing == Alive /\ audio_thread.pc = "transcribing"

\* lines 64-75: transcribe_audio returns, the gate, and the finally clause
TranscribeReturns ==
    /\ Transcribing
    /\ Release("p1")
    /\ LET transcript == tt["p1"].result.text IN
       IF Meaningful(transcript)
       THEN /\ signals' = Emit("transcription_ready", transcript)     \* line 67
            /\ sink' = [sink EXCEPT !.heard = Append(@, transcript), !.events = @ + 1]
       ELSE /\ signals' = Emit("status_changed", <<"listening">>)     \* line 69
            /\ sink' = [sink EXCEPT !.heard = Append(@, transcript)]
    /\ audio_thread' = [audio_thread EXCEPT !.processing = FALSE, !.pc = "sleep"]
    /\ UNCHANGED <<kq, cleared, cache_lock, stats, stoppers, status, is_listening, ui>>

\* line 77
Sleep ==
    /\ Alive /\ audio_thread.pc = "sleep"
    /\ audio_thread' = [audio_thread EXCEPT !.pc = "loop"]
    /\ UNCHANGED <<kq, cleared, cache_lock, stats, stoppers, status, is_listening, ui, signals, sink, aiVars, audioVars, recVars, trVars>>

\* lines 80-81
Cleanup(outcome) ==
    /\ Alive /\ audio_thread.pc = "cleanup"
    /\ StopRecording(outcome)
    /\ audio_thread' = Finished(audio_thread, FALSE)
    /\ UNCHANGED <<kq, cleared, cache_lock, stats, stoppers, status, is_listening, ui, signals, sink>>

\* start_listening, lines 204-213, and AudioProcessingThread.__init__ up to
\* the constructors of AudioManager and WhisperTranscriber: a request while
\* listening or while the thread runs is refused
StartRequest ==
    /\ ui.pc = "idle"
    /\ IF is_listening \/ Alive
       THEN /\ ui' = [ui EXCEPT !.last = "start_refused"]
            /\ UNCHANGED <<audio_thread, audioVars, recVars, trVars>>
       ELSE /\ ui.starts < MaxStarts
            /\ ui' = [ui EXCEPT !.pc = "constructing", !.starts = @ + 1,
                                !.last = "start"]
            /\ audio_thread' = [NoThread EXCEPT !.state = "created"]
            /\ audio_buffer' = <<>>
            /\ chunk_call' = [duration |-> 0, kind |-> "unset", data |-> <<>>]
            /\ is_recording' = FALSE
            /\ stream' = "none"
            /\ device_index' = NoDevice
            /\ callbacks' = 0
            /\ rec_call' = NoCall
            /\ engine' = NoEngine
            /\ lock' = NoHolder
            /\ tt' = [t \in TThreads |-> TIdle]
            /\ UNCHANGED <<delivered, tcalls>>
    /\ UNCHANGED <<kq, cleared, cache_lock, stats, stoppers, status, is_listening, signals, sink, aiVars>>

\* WhisperTranscriber.__init__ loads the engine; start_listening, lines 216-226
StartThread(load_ok, present) ==
    /\ ui.pc = "constructing"
    /\ InitializeWhisper(load_ok, present)
    /\ audio_thread' = [audio_thread EXCEPT !.state = "started", !.pc = "run"]
    /\ is_listening' = TRUE
    /\ sink' = Touch(sink, "ui")
    /\ ui' = [ui EXCEPT !.pc = "idle"]
    /\ status' = "listening"                                   \* line 225
    /\ UNCHANGED <<kq, cleared, cache_lock, stats, stoppers, signals>>

\* stop_listening, lines 232-236, with AudioProcessingThread.stop
StopRequest(outcome) ==
    /\ ui.pc = "idle"
    /\ IF ~is_listening
       THEN /\ ui' = [ui EXCEPT !.last = "stop_ignored"]
            /\ UNCHANGED <<audio_thread, aiVars, audioVars, recVars, trVars>>
       ELSE /\ audio_thread' = [audio_thread EXCEPT !.running = FALSE]
            /\ StopRecording(outcome)
            /\ ui' = [ui EXCEPT !.pc = "waiting", !.last = "stop"]
    /\ UNCHANGED <<kq, cleared, cache_lock, stats, stoppers, status, is_listening, signals, sink>>

\* wait(5000) runs out only on a thread that does not end by itself in that
\* time: one whose running flag is set, or one that is transcribing
Overdue == Alive /\ (audio_thread.running \/ audio_thread.pc \in {"transcribe", "transcribing"})

\* stop_listening, lines 237-247: the thread has ended, or the wait runs out
\* and the thread is terminated
WaitReturns ==
    /\ ui.pc = "waiting"
    /\ ~Alive \/ Overdue
    /\ audio_thread' = IF Alive THEN [audio_thread EXCEPT !.state = "terminated"]
                       ELSE audio_thread
    /\ is_listening' = FALSE
    /\ sink' = Touch(sink, "ui")
    /\ ui' = [ui EXCEPT !.pc = "idle", !.last = "stopped"]
    /\ status' = "ready"                                       \* line 246
    /\ UNCHANGED <<kq, cleared, cache_lock, stats, stoppers, signals, aiVars, audioVars, recVars, trVars>>

Queued(sig) == ui.pc = "idle" /\ signals # <<>> /\ Head(signals).sig = sig

\* handle_transcription: the overlay, and a thread for get_ai_response, which
\* calls get_response(question, "data_science")
HandleTranscription(t) ==
    /\ Queued("transcription_ready")
    /\ Begin(t, Head(signals).arg, DATA_SCIENCE, MaxRequests)
    /\ signals' = Tail(signals)
    /\ sink' = [Touch(sink, "ui") EXCEPT !.asked = @ \cup {Head(signals).arg},
                                         !.last_question = Head(signals).arg]   \* line 256
    /\ status' = "processing"                                  \* line 260
    /\ UNCHANGED <<kq, cleared, cache_lock, stats, stoppers, audio_thread, is_listening, ui>>

\* handle_error
HandleError ==
    /\ Queued("error_occurred")
    /\ signals' = Tail(signals)
    /\ sink' = Touch(sink, "ui")
    /\ status' = "error"                                       \* line 312
    /\ UNCHANGED <<kq, cleared, cache_lock, stats, stoppers, audio_thread, is_listening, ui, aiVars, audioVars, recVars, trVars>>

\* handle_status_change
HandleStatusChange ==
    /\ Queued("status_changed")
    /\ signals' = Tail(signals)
    /\ sink' = Touch(sink, "ui")
    /\ status' = Head(signals).arg[1]                          \* line 324
    /\ UNCHANGED <<kq, cleared, cache_lock, stats, stoppers, audio_thread, is_listening, ui, aiVars, audioVars, recVars, trVars>>

\* mutant of Delivers: the apology is kept from the sink
DeliversModelAnswers(response, model_used) == ~Falsy(response) /\ model_used # FALLBACK_ID

\* line 282, `if response:`
Delivers(response, model_used) == ~Falsy(response)

\* get_ai_response, lines 280-307, once get_response returned: the overlay
\* is updated and the question and answer logged by the AI thread itself
AnswerSink(s, key, response, model_used) ==
    IF Delivers(response, model_used)
    THEN [Touch(s, "ai") EXCEPT
             !.returned = @ + 1,
             !.answers = @ + 1,                       \* line 287
             !.logged = @ + 1,                        \* line 294
             !.last = [response |-> response.val, model |-> model_used,
                       key |-> key]]                  \* lines 283-287
    ELSE [Touch(s, "ai") EXCEPT !.returned = @ + 1]   \* line 300

\* get_response returns to get_ai_response
AnswerReturns(t) ==
    /\ Return(t)
    /\ sink' = AnswerSink(sink, th[t].cache_key, th[t].response, th[t].model_used)
    /\ status' = "listening"                                   \* line 307, `finally`
    /\ UNCHANGED <<kq, cleared, cache_lock, stats, stoppers, audio_thread, is_listening, ui, signals>>

\* the capture devices of a run: a virtual cable that opens, one whose
\* opening raises, and no input device at all
SomeEnvironments ==
    { [devices |-> <<CableOut>>, raises_at |-> NoDevice, default |-> NoDevice, open |-> "ok"],
      [devices |-> <<CableOut>>, raises_at |-> NoDevice, default |-> NoDevice,
       open |-> "open_raises"],
      [devices |-> <<>>, raises_at |-> NoDevice, default |-> NoDevice, open |-> "ok"] }

WorkingEnvironment == [devices |-> <<CableOut>>, raises_at |-> NoDevice, default |-> NoDevice, open |-> "ok"]

WHAT_IS_AI == <<"W", "h", "a", "t", " ", "i", "s", " ", "A", "I", "?">>

\* what the engines hear: nothing (they fail), "hey", or a question
HeardPython ==
    { [kind |-> "exception"],
      [kind |-> "result", text |-> <<"h", "e", "y", " ">>, segments |-> <<>>],
      [kind |-> "result", text |-> WHAT_IS_AI, segments |-> <<>>] }

\* engines that fail or hear "hey"
UnheardPython ==
    { [kind |-> "exception"],
      [kind |-> "result", text |-> <<"h", "e", "y", " ">>, segments |-> <<>>] }

\* the life of the audio thread: starts that fail, stops at every moment,
\* restarts, exceptions in the loop; nothing meaningful is heard
NextOrchestrator ==
    \/ StartRequest
    \/ \E load_ok \in BOOLEAN : StartThread(load_ok, {})
    \/ StopRequest("ok")
    \/ WaitReturns
    \/ HandleError
    \/ HandleStatusChange
    \/ RunBegins
    \/ CheckReady
    \/ \E env \in SomeEnvironments : StartCapture(env)
    \/ LoopHead
    \/ Extract
    \/ ExtractRaises
    \/ CallTranscribe
    \/ TranscribeRaises
    \/ Transcribing /\ Acquire("p1") /\ UNCHANGED appVars
    \/ \E outcome \in UnheardPython : Transcribing /\ RunPython("p1", outcome) /\ UNCHANGED appVars
    \/ TranscribeReturns
    \/ Sleep
    \/ Cleanup("ok")
    \/ Deliver /\ UNCHANGED appVars

SpecOrchestrator == Init /\ [][NextOrchestrator]_vars

\* one run of the pipeline that starts and is not stopped: what is heard is
\* transcribed, gated, asked and answered
NextPipeline ==
    \/ StartRequest
    \/ StartThread(TRUE, {})
    \/ \E t \in Threads : HandleTranscription(t)
    \/ HandleStatusChange
    \/ RunBegins
    \/ CheckReady
    \/ StartCapture(WorkingEnvironment)
    \/ LoopHead
    \/ Extract
    \/ CallTranscribe
    \/ Transcribing /\ Acquire("p1") /\ UNCHANGED appVars
    \/ \E outcome \in HeardPython : Transcribing /\ RunPython("p1", outcome) /\ UNCHANGED appVars
    \/ TranscribeReturns
    \/ Sleep
    \/ Deliver /\ UNCHANGED appVars
    \/ \E t \in Threads, o \in SomeOutcomes : TryPrimary(t, o, 1) /\ UNCHANGED appVars
    \/ \E t \in Threads, o \in SomeOutcomes : TryFallback(t, o, 1) /\ UNCHANGED appVars
    \/ \E t \in Threads : CacheStep(t) /\ UNCHANGED appVars
    \/ \E t \in Threads : CountLoad(t) /\ UNCHANGED appVars
    \/ \E t \in Threads : CountStore(t) /\ UNCHANGED appVars
    \/ \E t \in Threads : TimeLoad(t) /\ UNCHANGED appVars
    \/ \E t \in Threads : TimeStore(t) /\ UNCHANGED appVars
    \/ \E t \in Threads : AnswerReturns(t)

SpecPipeline == Init /\ [][NextPipeline]_vars

\* the audio thread emits transcription_ready for a question it heard
\* (src/main.py:67)
Hears(q) ==
    /\ sink.events < MaxRequests
    /\ signals' = Emit("transcription_ready", q)
    /\ sink' = [sink EXCEPT !.heard = Append(@, q), !.events = @ + 1]
    /\ UNCHANGED <<kq, cleared, cache_lock, stats, stoppers, status, audio_thread, is_listening, ui,
                   aiVars, audioVars, recVars, trVars>>

\* questions are heard one after the other and answered by AI threads that
\* run at once
NextAnswers ==
    \/ \E q \in ClearQuestions : Hears(q)
    \/ \E t \in Threads : HandleTranscription(t)
    \/ \E t \in Threads, o \in SomeOutcomes : TryPrimary(t, o, 1) /\ UNCHANGED appVars
    \/ \E t \in Threads, o \in SomeOutcomes : TryFallback(t, o, 1) /\ UNCHANGED appVars
    \/ \E t \in Threads : CacheStep(t) /\ UNCHANGED appVars
    \/ \E t \in Threads : CountLoad(t) /\ UNCHANGED appVars
    \/ \E t \in Threads : CountStore(t) /\ UNCHANGED appVars
    \/ \E t \in Threads : TimeLoad(t) /\ UNCHANGED appVars
    \/ \E t \in Threads : TimeStore(t) /\ UNCHANGED appVars
    \/ \E t \in Threads : AnswerReturns(t)

SpecAnswers == Init /\ [][NextAnswers]_vars

(***************************************************************************)
(* stop_recording statement by statement, called by the UI thread          *)
(* (AudioProcessingThread.stop, src/main.py:89-90) and by the audio thread *)
(* when it has left its loop (src/main.py:80).  It takes no lock.          *)
(***************************************************************************)
At(c, pc) == stoppers.pc[c] = pc

Goto(c, pc) == [stoppers EXCEPT !.pc[c] = pc]

\* the caller enters stop_recording: the UI thread once run() has called
\* start_recording, the audio thread once the stream was started and stop()
\* has cleared `running`
EnterStop(c) ==
    /\ At(c, "idle")
    /\ rec_call.op = "start"
    /\ c = "audio" => (rec_call.result = "True" /\ ~At("ui", "idle"))
    /\ stoppers' = Goto(c, "check")
    /\ UNCHANGED <<kq, cleared, cache_lock, stats, status, audio_thread, is_listening, ui, signals,
                   sink, aiVars, audioVars, recVars, trVars>>

\* lines 130-134
CheckRecording(c) ==
    /\ At(c, "check")
    /\ stoppers' = Goto(c, IF ~is_recording THEN "done"
                           ELSE IF stream = "none" THEN "flags"
                           ELSE "stop_stream")
    /\ UNCHANGED <<kq, cleared, cache_lock, stats, status, audio_thread, is_listening, ui, signals,
                   sink, aiVars, audioVars, recVars, trVars>>

\* line 135: stop_stream() returns or raises (lines 142-143)
StopStream(c, ok) ==
    /\ At(c, "stop_stream")
    /\ stoppers' = [Goto(c, IF ok THEN "close" ELSE "done") EXCEPT !.stop_calls = @ + 1]
    /\ stream' = IF ok /\ stream # "closed" THEN "stopped" ELSE stream
    /\ UNCHANGED <<is_recording, device_index, callbacks, rec_call>>
    /\ UNCHANGED <<kq, cleared, cache_lock, stats, status, audio_thread, is_listening, ui, signals,
                   sink, aiVars, audioVars, trVars>>

\* line 136: close() returns or raises (lines 142-143)
CloseStream(c, ok) ==
    /\ At(c, "close")
    /\ stoppers' = [Goto(c, IF ok THEN "flags" ELSE "done") EXCEPT !.close_calls = @ + 1]
    /\ stream' = IF ok THEN "closed" ELSE stream
    /\ UNCHANGED <<is_recording, device_index, callbacks, rec_call>>
    /\ UNCHANGED <<kq, cleared, cache_lock, stats, status, audio_thread, is_listening, ui, signals,
                   sink, aiVars, audioVars, trVars>>

\* lines 138-140
SetFlags(c) ==
    /\ At(c, "flags")
    /\ stoppers' = Goto(c, "done")
    /\ is_recording' = FALSE
    /\ callbacks' = 0
    /\ UNCHANGED <<stream, device_index, rec_call>>
    /\ UNCHANGED <<kq, cleared, cache_lock, stats, status, audio_thread, is_listening, ui, signals,
                   sink, aiVars, audioVars, trVars>>

\* one start of the capture stream, then the two callers of stop_recording
NextStop ==
    \/ \E env \in SomeEnvironments : rec_call.op = "none" /\ StartRecording(env) /\ UNCHANGED appVars
    \/ Deliver /\ UNCHANGED appVars
    \/ \E c \in Callers : EnterStop(c)
    \/ \E c \in Callers : CheckRecording(c)
    \/ \E c \in Callers, ok \in BOOLEAN : StopStream(c, ok)
    \/ \E c \in Callers, ok \in BOOLEAN : CloseStream(c, ok)
    \/ \E c \in Callers : SetFlags(c)

SpecStop == Init /\ [][NextStop]_vars

(***************************************************************************)
(* Claims about AIResponseHandler.                                         *)
(***************************************************************************)
\* the step in which thread t's call looks its key up (lines 55-62)
Looked(t) == th[t].pc = "idle" /\ th'[t].pc # "idle"

\* the call of t returned a from the cache without calling a model
HitWith(t, a) ==
    /\ th'[t].pc = "return"
    /\ th'[t].tried = <<>>
    /\ th'[t].response = Some(a.response)
    /\ th'[t].model_used = a.model

\* C1, as stated: once a get_response call answered by a real model has
\* returned, a later call with the same key, with no clear_cache and no
\* eviction of the key in between, returns the identical (answer, modelId)
\* and calls no remote model.
CacheIdempotence ==
    [][\A t \in Threads : Looked(t) =>
          \A a \in answered : a.key = th'[t].cache_key => HitWith(t, a)]_vars

\* C1, amended: the same, provided the entry the first call stored is still
\* the stored one when that call returns and no other call stores an answer
\* under the key in between (a concurrent call that missed the cache before
\* the first one stored its answer overwrites the entry).
CacheIdempotenceUnlessOverwritten ==
    [][\A t \in Threads : Looked(t) =>
          \A a \in standing : a.key = th'[t].cache_key => HitWith(t, a)]_vars

\* C1 witness: a call returns from the cache the answer an earlier call got
\* from a real model.
CacheIdempotenceWitness ==
    \E t \in Threads :
        /\ th[t].pc = "return"
        /\ th[t].tried = <<>>
        /\ \E a \in standing :
              /\ a.key = th[t].cache_key
              /\ Some(a.response) = th[t].response
              /\ a.model = th[t].model_used
              /\ a.model \in {PRIMARY_MODEL, FALLBACK_MODEL}

ApologyNeverCached ==
    /\ \A i \in 1..Len(response_cache) :
          response_cache[i].model # FALLBACK_ID /\ response_cache[i].response # APOLOGY
    /\ \A t \in Threads :
          /\ th[t].pc = "cache" /\ Len(th[t].tried) = 2 /\ Unusable(th[t].last_out) =>
                th[t].response = Some(APOLOGY) /\ th[t].model_used = FALLBACK_ID
          /\ th[t].pc = "return" /\ th[t].tried = <<>> => th[t].model_used # FALLBACK_ID

\* C3 witness: a call whose two models failed is about to return the
\* apology, and has passed the caching step, while the cache holds an entry.
ApologyNeverCachedWitness ==
    \E t \in Threads :
        /\ th[t].pc = "return"
        /\ th[t].response = Some(APOLOGY)
        /\ th[t].model_used = FALLBACK_ID
        /\ response_cache # <<>>

\* C4: for every question and every pair of transport outcomes, get_response
\* does not raise and returns a non-empty answer string.
AlwaysAnAnswer ==
    \A t \in Threads :
        /\ th[t].pc # "raised"
        /\ th[t].pc \in {"cache", "count_load", "count_store", "time_load",
                         "time_store", "return"} =>
              th[t].response.some /\ th[t].response.val # <<>>

\* C4 witness: the primary's body was malformed and the fallback answered
\* 200 with whitespace only; the call holds the apology.
AlwaysAnAnswerWitness ==
    \E t \in Threads :
        /\ th[t].pc = "cache"
        /\ th[t].last_out = Ok(<<" ">>)
        /\ Len(th[t].tried) = 2
        /\ th[t].response = Some(APOLOGY)

\* C5, as stated: 51 entries with distinct keys stored through
\* _cache_response into an empty cache leave at most 41 entries, the 10
\* stored first being absent.
EvictionAt51 ==
    (inserted = CACHE_LIMIT + 1 /\ started - Pending = inserted) =>
        /\ Len(response_cache) <= CACHE_LIMIT + 1 - EVICT_BATCH
        /\ \A n \in 0..(EVICT_BATCH - 1) :
              GetCacheKey(NthQuestion(n), DATA_SCIENCE) \notin CacheKeys(response_cache)

\* C6, as stated: the response cache never holds more than 50 entries.
CacheCapacity == Len(response_cache) <= CACHE_LIMIT

\* C7, as stated: the counters are safe against concurrent writers: every
\* store of line 84 leaves request_count one above the value it had, and
\* every store of line 85 adds the call's response_time to the value
\* total_response_time had, so N complete calls that missed raise the
\* counter by N and the total by the sum of their times.
NoLostUpdate ==
    [][\A t \in Threads :
          /\ th[t].pc = "count_store" /\ th'[t].pc = "time_load" =>
                request_count' = request_count + 1
          /\ th[t].pc = "time_store" /\ th'[t].pc = "return" =>
                total_response_time' = total_response_time + th[t].response_time]_vars

\* C8, as stated: every completed get_response call, a cache hit included,
\* has raised request_count by one.
CountsEveryCall == AllIdle => request_count = started

\* the step in which thread t's call stores its answer (lines 79-81)
Stores(t) ==
    /\ th[t].pc = "cache"
    /\ th'[t].pc = "count_load"
    /\ ShouldCache(th[t].response, th[t].model_used)

\* the step removes an entry or moves one: without eviction every entry
\* stays where it is
Evicts ==
    \E i \in 1..Len(response_cache) :
        ~(i <= Len(response_cache') /\ response_cache'[i].key = response_cache[i].key)

\* the entry of t's answer
Entry(t) == [key |-> th[t].cache_key, response |-> th[t].response.val,
             model |-> th[t].model_used]

\* the first EVICT_BATCH entries are gone and the later ones have moved up
\* in their order, the one of t's key with t's answer
OldestBatchGone(t) ==
    /\ Len(response_cache) >= EVICT_BATCH
    /\ \A i \in 1..EVICT_BATCH :
          response_cache[i].key \in CacheKeys(response_cache')
              => response_cache[i].key = th[t].cache_key
    /\ \A i \in (EVICT_BATCH + 1)..Len(response_cache) :
          response_cache'[i - EVICT_BATCH] =
              IF response_cache[i].key = th[t].cache_key THEN Entry(t)
              ELSE response_cache[i]
    /\ Len(response_cache') \in {Len(response_cache) - EVICT_BATCH,
                                  Len(response_cache) - EVICT_BATCH + 1}

CacheAccessSerialized ==
    stats.called => stats.during # "evicting"

\* a thread's position in get_response and the locals of its call
Locals(t) == <<th[t].pc, th[t].cache_key, th[t].response, th[t].model_used, th[t].response_time>>

\* clear_cache leaves the cache empty and the counters and the calls under
\* way as they were
ClearsCacheOnly ==
    ClearCache =>
        /\ Len(response_cache') = 0
        /\ request_count' = request_count
        /\ total_response_time' = total_response_time
        /\ \A t \in Threads : Locals(t)' = Locals(t)

\* the call of t missed the cache and goes to the primary model
MissesCache(t) == th'[t].pc = "try_primary" /\ th'[t].tried = <<>>

\* C31, as stated: clear_cache empties the cache and changes nothing else,
\* and the next get_response for a question that was cached misses the cache
\* and calls the primary model again.
ClearCacheContract ==
    /\ [][ClearsCacheOnly]_vars
    /\ [][\A t \in Threads :
             (Looked(t) /\ th'[t].cache_key \in cleared.keys) => MissesCache(t)]_vars

\* C31, amended: the same, provided no get_response call that was under way
\* when the cache was cleared has stored an answer for the question since.
ClearCacheUnlessRestored ==
    /\ [][ClearsCacheOnly]_vars
    /\ [][\A t \in Threads :
             (Looked(t) /\ th'[t].cache_key \in cleared.keys \ cleared.restored)
                 => MissesCache(t)]_vars

\* C31 witness: after calls were counted and a cached answer cleared, the
\* first call for its question is about to call the primary model, the
\* counters being what they were.
ClearCacheWitness ==
    \E t \in cleared.first :
        /\ th[t].pc = "try_primary"
        /\ th[t].tried = <<>>
        /\ response_cache = <<>>
        /\ request_count > 0
        /\ total_response_time > 0

(***************************************************************************)
(* Claims about AudioManager.                                              *)
(***************************************************************************)
\* a get_audio_chunk call was made on the buffer as it is
Called == chunk_call.kind # "unset"

\* the magnitude of sample x is below the silence threshold
SilentSample(x) ==
    (IF x < 0 THEN -x ELSE x) * SILENCE_DEN < SILENCE_NUM

\* C9: whenever the sample count a duration requires,
\* int(sampleRate x duration), exceeds the number of samples in the ring
\* buffer, get_audio_chunk returns None.
NoneWhenTooFewSamples ==
    (Called /\ SamplesNeeded(chunk_call.duration) > Len(audio_buffer)) =>
        chunk_call.kind = "none"

\* C9 witness: a buffer with non-silent samples, fewer than a call required,
\* and the call returned None.
NoneWhenTooFewSamplesWitness ==
    /\ Called
    /\ SamplesNeeded(chunk_call.duration) > Len(audio_buffer)
    /\ \E i \in 1..Len(audio_buffer) : ~SilentSample(audio_buffer[i])
    /\ chunk_call.kind = "none"

\* C10: when the buffer holds at least N >= 1 samples and each of the most
\* recent N has a magnitude below the silence threshold, get_audio_chunk
\* returns None.
NoneWhenSilent ==
    LET n == SamplesNeeded(chunk_call.duration) IN
    (/\ Called
     /\ n >= 1
     /\ Len(audio_buffer) >= n
     /\ \A i \in (Len(audio_buffer) - n + 1)..Len(audio_buffer) :
           SilentSample(audio_buffer[i])) =>
        chunk_call.kind = "none"

\* C10 witness: the most recent N samples are silent, an older one is not,
\* and the call returned None.
NoneWhenSilentWitness ==
    LET n == SamplesNeeded(chunk_call.duration) IN
    /\ Called
    /\ n >= 1
    /\ Len(audio_buffer) > n
    /\ \A i \in (Len(audio_buffer) - n + 1)..Len(audio_buffer) :
          SilentSample(audio_buffer[i])
    /\ ~SilentSample(audio_buffer[1])
    /\ chunk_call.kind = "none"

\* C11, as stated: a chunk that get_audio_chunk returns has exactly
\* int(sampleRate x duration) elements, also when that count is 0, its i-th
\* element is the i-th of the most recent N buffered samples, and every
\* element over 32768 lies in [-1, 1].
ChunkIsLastN ==
    (Called /\ chunk_call.kind = "chunk") =>
        LET n == SamplesNeeded(chunk_call.duration)
            data == chunk_call.data
        IN /\ Len(data) = n
           /\ \A i \in 1..Len(data) :
                 /\ Len(audio_buffer) - n + i \in 1..Len(audio_buffer)
                 /\ data[i] = audio_buffer[Len(audio_buffer) - n + i]
                 /\ -32768 <= data[i] /\ data[i] <= 32768

\* the sum of the squares of the samples as integers, without wrap-around
RECURSIVE TrueSumSquares(_)
TrueSumSquares(chunk) ==
    IF chunk = <<>> THEN 0 ELSE Head(chunk) * Head(chunk) + TrueSumSquares(Tail(chunk))

\* the root-mean-square of the samples' true values is below the threshold
TrulySilent(chunk) ==
    TrueSumSquares(chunk) * SILENCE_DEN * SILENCE_DEN < SILENCE_NUM * SILENCE_NUM * Len(chunk)

\* C32: when the buffer holds at least N >= 1 samples, get_audio_chunk
\* returns None exactly when the root-mean-square of the true values of the
\* most recent N samples is below the silence threshold.  Refuted: the
\* squares are computed in int16 and wrap around, so N samples equal to 256
\* have squares 0 and are gated as silence.
SilenceGateOnTrueValues ==
    LET n == SamplesNeeded(chunk_call.duration) IN
    (Called /\ n >= 1 /\ Len(audio_buffer) >= n) =>
        (chunk_call.kind = "none" <=> TrulySilent(LastN(audio_buffer, n)))

\* the last get_audio_chunk call would return the same now
SameAgain == Called => chunk_call = GetAudioChunkResult(audio_buffer, chunk_call.duration)

\* C12: get_audio_chunk leaves the ring buffer's contents and length as they
\* were, whatever it returns, and a second call with no capture callback in
\* between returns what the first returned.
PureRead ==
    /\ []SameAgain
    /\ [][\A d \in 0..MaxDuration : GetAudioChunk(d) => audio_buffer' = audio_buffer]_vars

\* C12 witness: a call returned a chunk and the buffer still holds, at
\* full length, the samples the chunk was taken from.
PureReadWitness ==
    /\ Called
    /\ chunk_call.kind = "chunk"
    /\ SamplesNeeded(chunk_call.duration) >= 1
    /\ Len(audio_buffer) = BufferMaxLen
    /\ chunk_call.data = SliceLast(audio_buffer, SamplesNeeded(chunk_call.duration))

\* C13: after any sequence of capture callbacks the buffer holds at most
\* its capacity and exactly the last min(total delivered, capacity) samples
\* in arrival order.
RingInvariant ==
    /\ Len(audio_buffer) <= BufferMaxLen
    /\ Len(audio_buffer) = Min(Len(delivered), BufferMaxLen)
    /\ \A i \in 1..Len(audio_buffer) :
          audio_buffer[i] = delivered[Len(delivered) - Len(audio_buffer) + i]

\* C13 witness: more samples were delivered than the buffer holds and the
\* oldest one, different from the one that followed the buffer's horizon, is
\* gone.
RingInvariantWitness ==
    /\ Len(delivered) > BufferMaxLen
    /\ Len(audio_buffer) = BufferMaxLen
    /\ audio_buffer[1] # delivered[1]

\* the last call was a start_recording that went on to select a device
Selected == rec_call.op = "start" /\ ~rec_call.was_recording

\* the indices of the devices whose name contains a marker
Marked ==
    {i \in 0..(Len(rec_call.devices) - 1) : rec_call.devices[i + 1] \in MarkedInfos}

\* of those, the ones with input channels
Capable == {i \in Marked : rec_call.devices[i + 1].maxInputChannels > 0}

\* no device lookup raised up to and including index i
ReachedUnharmed(i) == rec_call.raises_at = NoDevice \/ rec_call.raises_at > i

First(indices) == CHOOSE i \in indices : \A j \in indices : i <= j

NothingStarted ==
    /\ rec_call.result = "False"
    /\ stream = rec_call.was_stream
    /\ ~is_recording

StartAllOrNothing ==
    (rec_call.op = "start" /\ ~rec_call.was_recording) =>
        IF rec_call.result = "False"
        THEN ~is_recording /\ callbacks = 0
        ELSE is_recording

\* C16, as stated: when a stop_recording call has returned, is_recording is
\* False and the stream, if there is one, is stopped and closed; on a
\* manager that was not recording the call touched nothing.
StopHalts ==
    rec_call.op = "stop" =>
        /\ ~is_recording
        /\ stream \in {"none", "closed"}
        /\ ~rec_call.was_recording => stream = rec_call.was_stream

\* C37: the capture stream of one successful start is stopped at most once
\* and closed at most once, whatever the interleaving of the UI thread's
\* stop() and the audio thread's cleanup.  Refuted: stop_recording tests
\* is_recording at its beginning and clears it at its end without a lock, so
\* both callers pass the test and both call stop_stream() and close().
StreamClosedOnce ==
    stoppers.stop_calls <= 1 /\ stoppers.close_calls <= 1

\* Ready(primary), Ready(fallback) and Unavailable, in the fields
InState(state) ==
    CASE state = "primary" ->
           engine.model_loaded /\ engine.model /\ ~engine.whisper_cpp_path.some
      [] state = "fallback" ->
           ~engine.model_loaded /\ ~engine.model /\ engine.whisper_cpp_path.some
      [] OTHER ->
           ~engine.model_loaded /\ ~engine.model /\ ~engine.whisper_cpp_path.some

EngineStates == {state \in {"primary", "fallback", "unavailable"} : InState(state)}

\* C17: once initialised the engine is in exactly one of Ready(primary),
\* Ready(fallback) and Unavailable; whisper.cpp was probed only when loading
\* the local model failed; is_ready() is true exactly when the model loaded
\* or a whisper.cpp path was found, which is when transcribe_audio has an
\* engine to run.
EngineState ==
    engine.initialized =>
        /\ Cardinality(EngineStates) = 1
        /\ engine.probed # <<>> => ~engine.load_ok
        /\ engine.load_ok => EngineStates = {"primary"}
        /\ (~engine.load_ok /\ engine.present # {}) => EngineStates = {"fallback"}
        /\ (~engine.load_ok /\ engine.present = {}) => EngineStates = {"unavailable"}
        /\ IsReady(engine) <=> (engine.load_ok \/ engine.present # {})
        /\ IsReady(engine) <=> Route(engine) # "unavailable"

\* C17 witness: the model failed to load, three paths were probed and the
\* third was found.
EngineStateWitness ==
    /\ engine.initialized
    /\ ~engine.load_ok
    /\ Len(engine.probed) = 3
    /\ engine.whisper_cpp_path = Some("whisper-cpp")
    /\ IsReady(engine)

\* the threads inside the local model or the subprocess
Executing == {t \in TThreads : tt[t].pc \in {"python", "cpp"}}

\* C18: at most one transcribe_audio call executes the local model or the
\* subprocess at any time; the lock is free again when every call has
\* returned, whatever its exit path; a waiting caller gets the lock once the
\* holder has returned.
TranscriptionMutex ==
    /\ [](Cardinality(Executing) <= 1)
    /\ []((\A t \in TThreads : tt[t].pc \in {"idle", "waiting"}) => lock = NoHolder)
    /\ \A t \in TThreads : (tt[t].pc = "waiting") ~> (lock = t)

\* C18 witness: one thread holds the lock inside an engine while the other
\* waits for it.
TranscriptionMutexWitness ==
    /\ lock = "p1"
    /\ tt["p1"].pc \in {"python", "cpp"}
    /\ tt["p2"].pc = "waiting"

\* the call of t ends in a failure: no engine, an exception, a timeout or a
\* non-zero exit
Failed(t) ==
    \/ tt[t].route = "unavailable"
    \/ tt[t].last_out.kind \in {"exception", "timeout"}
    \/ tt[t].last_out.kind = "exit" /\ tt[t].last_out.returncode # 0

\* C19: an exception in the local model, a non-zero exit, a timeout or an
\* unavailable engine makes transcribe_audio return ("", 0.0), and the
\* engine is as usable afterwards as it was.
FailuresAreValues ==
    \A t \in TThreads :
        (tt[t].pc = "release" /\ Failed(t)) =>
            /\ tt[t].result = EmptyResult
            /\ Route(engine) = tt[t].route

\* C19 witness: the subprocess printed a transcript and exited with code 1.
FailuresAreValuesWitness ==
    /\ tt["p1"].pc = "release"
    /\ tt["p1"].last_out.kind = "exit"
    /\ tt["p1"].last_out.returncode = 1
    /\ tt["p1"].last_out.stdout = <<"h", "i">>
    /\ tt["p1"].result = EmptyResult

\* C20: on the whisper.cpp engine a subprocess that exits with code 0 gives
\* its standard output, trimmed, with confidence exactly 0.8; every result
\* of transcribe_audio on either engine has a confidence in [0, 1].
FallbackSuccess ==
    \A t \in TThreads :
        /\ (tt[t].pc = "release" /\ tt[t].route = "cpp" /\ tt[t].last_out.kind = "exit"
              /\ tt[t].last_out.returncode = 0) =>
                 /\ tt[t].result.text = Strip(tt[t].last_out.stdout)
                 /\ tt[t].result.confidence.num * 10 = 8 * tt[t].result.confidence.den
        /\ tt[t].result.confidence.den > 0
        /\ 0 <= tt[t].result.confidence.num
        /\ tt[t].result.confidence.num <= tt[t].result.confidence.den

\* C20 witness: the subprocess exited with code 0 and printed the transcript
\* between white space.
FallbackSuccessWitness ==
    /\ tt["p1"].pc = "release"
    /\ tt["p1"].route = "cpp"
    /\ tt["p1"].last_out.kind = "exit"
    /\ tt["p1"].last_out.returncode = 0
    /\ tt["p1"].last_out.stdout = <<" ", "h", "i", "\n">>
    /\ tt["p1"].result = [text |-> <<"h", "i">>, confidence |-> CPP_CONFIDENCE]

\* C34: whenever transcribe_audio returns an empty text, the confidence it
\* returns is 0.0, on both engines.  Refuted: the local model's confidence is
\* computed from the segments whatever the text is, and a subprocess that
\* exits with code 0 gets 0.8 whatever it printed.
EmptyTextZeroConfidence ==
    \A t \in TThreads :
        (tt[t].pc = "release" /\ tt[t].result.text = <<>>)
            => tt[t].result.confidence.num = 0

(***************************************************************************)
(* Claims about the temporary file of the whisper.cpp run.                 *)
(***************************************************************************)
\* C21: when a whisper.cpp transcription is about to return, its temporary
\* wav file was never created, was removed, or its removal was attempted.
\* Refuted: after a timeout of the subprocess, or an exception raised once the
\* file exists, the call returns and the file is left.
TempFileGone ==
    \A t \in TThreads :
        tt[t].pc = "release" /\ tt[t].route = "cpp"
            => tt[t].temp \in {"none", "removed", "remove_failed"}

(***************************************************************************)
(* Claims about the cache key.                                             *)
(***************************************************************************)
\* the words of a question that are kept for the key, lower-cased
KeptWords(words) ==
    SelectSeq([i \in 1..Len(words) |-> Lower(words[i])],
              LAMBDA w : w \notin words_to_remove /\ Len(w) > 2)

FirstFive(words) == Take(KeptWords(words), 5)

\* other questions, given by their words and put together with blanks
Probe(words, context) ==
    [words |-> words, context |-> context, five |-> FirstFive(words),
     key |-> GetCacheKey(Join(<<" ">>, words), context)]

Probes ==
    { Probe(<< <<"s", "q", "l">>, <<"s", "q", "l">> >>, DATA_SCIENCE),
      Probe(<< <<"s", "q", "l", "_", "s", "q", "l">> >>, DATA_SCIENCE),
      Probe(<< <<"s", "q", "l">>, <<"s", "q", "l">>, <<"s", "q", "l">>,
               <<"s", "q", "l">>, <<"s", "q", "l">> >>, DATA_SCIENCE),
      Probe(<< <<"s", "q", "l">>, <<"e", "t", "l">> >>, DATA_SCIENCE),
      Probe(<< <<"S", "Q", "L">> >>, GENERAL) }

Underscored(words) ==
    \E i \in 1..Len(words) : \E j \in 1..Len(words[i]) : words[i][j] = "_"

SameTokens(p, five) == p.context = kq.context /\ p.five = five

\* C29 as stated: two questions share a key exactly when they have the same
\* context and the same first five kept tokens.  Refuted: "sql sql" and
\* "sql_sql" have different tokens and the same key, because the tokens are
\* joined with "_".
KeySharedExactly ==
    kq.asked =>
        LET five == FirstFive(kq.words) IN
        \A p \in Probes : (p.key = kq.key) <=> SameTokens(p, five)

\* C29, amended: the key is the context, ":", and the first five kept tokens
\* of the lower-cased question joined with "_"; questions with the same
\* context and the same first five kept tokens share their key, whatever the
\* letter case, the stop-words, the white space and the tokens after the
\* fifth; and questions whose kept tokens contain no "_" share a key only
\* when they have the same context and the same first five kept tokens.
KeyOfKeptTokens ==
    kq.asked =>
        LET five == FirstFive(kq.words) IN
        /\ kq.key = kq.context \o <<":">> \o Join(<<"_">>, five)
        /\ \A p \in Probes :
              /\ SameTokens(p, five) => p.key = kq.key
              /\ (p.key = kq.key /\ ~Underscored(p.five) /\ ~Underscored(five))
                    => SameTokens(p, five)

\* a padded question with a sixth kept token that shares the key of the
\* five-token question
KeyOfKeptTokensWitness ==
    /\ kq.asked /\ kq.padded
    /\ Len(KeptWords(kq.words)) > 5
    /\ kq.words[Len(kq.words)] = <<"E", "T", "L">>
    /\ \E p \in Probes : Len(p.words) = 5 /\ p.key = kq.key

(***************************************************************************)
(* Claims about the orchestrator.                                          *)
(***************************************************************************)
\* the transcripts the poll loop received that are longer than 3 characters
\* once trimmed
LongHeard == {i \in 1..Len(sink.heard) : Len(Strip(sink.heard[i])) > 3}

Quiet == signals = <<>> /\ AllIdle /\ ui.pc = "idle"

StatusStaysReady ==
    ui.last = "stopped" => status \notin {"listening", "processing"}

\* C38: when every AI call has completed, last_answer and the answer the
\* overlay displays are those of the call made for last_question.  Refuted:
\* each get_ai_response thread writes last_answer and the overlay when its
\* own call returns, so the call that finishes last wins, whichever
\* question it was for.
AnswersMatchQuestions ==
    (Quiet /\ sink.returned > 0) =>
        sink.last.key = GetCacheKey(sink.last_question, DATA_SCIENCE)

\* C23: when the start failed (engine not ready, or the capture device did
\* not open) and the error is handled, the application is not marked as
\* listening.  Refuted: start_listening sets is_listening after starting the
\* thread and nothing resets it when run() returns early.
StartFailureStaysIdle ==
    (audio_thread.failed /\ ui.pc = "idle" /\ signals = <<>>) => ~is_listening

\* C24: when stop_listening has returned, the audio thread runs no more and
\* the capture stream is closed.  Refuted: a stop that comes before run()
\* sets running finds nothing to close, run() then sets the flag and opens
\* the stream, and the thread is terminated with the stream active.
StopClosesDevice ==
    (ui.pc = "idle" /\ ui.last = "stopped") =>
        ~Alive /\ ~is_recording /\ stream \in {"none", "closed"}

\* C25: no exception ends the poll loop.  Refuted: an exception of
\* get_audio_chunk is raised outside the try block and leaves run().
LoopSurvivesErrors == audio_thread.state # "crashed"

\* C26: the overlay is called from the UI thread only.  Refuted:
\* get_ai_response runs in its own thread and calls update_text and
\* set_status itself.
OverlayOnUiOnly == sink.overlay \subseteq {"ui"}

\* C36: the chunks handed to the transcriber by successive extractions do
\* not overlap: k chunks of N samples each are k * N different samples of
\* those the capture callbacks delivered.  Refuted: get_audio_chunk leaves
\* the buffer as it is, and the next turn of the loop takes the most recent
\* N samples again, whether or not N new ones have arrived.
NoAudioTwice ==
    audio_thread.chunks * SamplesNeeded(CHUNK_DURATION) <= Len(delivered)

\* an AI round trip is under way
InFlight == \E t \in Threads : th[t].pc # "idle"

\* C27: while an AI round trip is under way, the poll loop at its chunk
\* extraction can extract, at its transcription call can call the
\* transcriber (within the bound on calls), a transcription under way can
\* take its next step, and the active stream can deliver (within the bound
\* on deliveries).
AINeverStalls ==
    InFlight =>
        /\ (Alive /\ audio_thread.pc = "extract") => ENABLED Extract
        /\ (Alive /\ audio_thread.pc = "transcribe" /\ tcalls < MaxChunks) => ENABLED CallTranscribe
        /\ (Transcribing /\ tt["p1"].pc = "waiting") => ENABLED (Acquire("p1") /\ UNCHANGED appVars)
        /\ (Transcribing /\ tt["p1"].pc = "release") => ENABLED TranscribeReturns
        /\ (stream = "active" /\ Len(delivered) + MaxBlock <= MaxDelivered)
              => ENABLED (Deliver /\ UNCHANGED appVars)

\* two round trips are under way while the loop, having extracted chunks,
\* is about to extract another
AINeverStallsWitness ==
    /\ \A t \in Threads : th[t].pc # "idle"
    /\ Alive /\ audio_thread.pc = "extract"
    /\ audio_thread.chunks = 2

\* C28: every AI round trip that has returned has updated the overlay with
\* its answer once and logged it once, the apology like any other answer;
\* an answer with the model id "fallback" is the apology.
OneAnswerPerRoundTrip ==
    /\ sink.answers = sink.returned
    /\ sink.logged = sink.returned
    /\ sink.returned > 0 => sink.last.response # <<>>
    /\ sink.last.model = FALLBACK_ID <=> sink.last.response = APOLOGY

\* a model's answer and then the apology have been delivered
OneAnswerPerRoundTripWitness ==
    /\ sink.returned = 2
    /\ sink.last.model = FALLBACK_ID
    /\ response_cache # <<>>

====
